---- MODULE Spec2Model ----
(***************************************************************************)
(* GradientContainer (gradient_container.py) with the Ellipse geometry     *)
(* (ellipse_obstacles.py) and get_reference_weight (utils.py).             *)
(*                                                                         *)
(* Geometry.  Every obstacle is an unrotated ellipse whose centre lies on  *)
(* the first coordinate axis.  The centre-to-centre directions, the        *)
(* surface points in those directions and the cached boundary points then  *)
(* all lie on that axis and the second coordinate of every vector the      *)
(* container handles is 0, so a point is written as its first coordinate.  *)
(* Reals are fixed-point integers with Scale units per 1.0; a quotient is  *)
(* truncated towards zero.  Obstacle indices are 1-based here (index k is  *)
(* index k-1 of the Python container).  Centres are pairwise distinct: a   *)
(* zero centre-to-centre direction divides by zero in                      *)
(* get_intersection_with_surface (ellipse_obstacles.py:437).               *)
(***************************************************************************)
EXTENDS Integers, Sequences, FiniteSets

----------------------------------------------------------------------------
(* Bounds of the model *)

\* largest number of obstacles a scene holds
MaxObs == 3

\* largest number of changes a caller makes to the scene between appends
\* and passes: obstacle moves and set_distance calls
MaxMoves == 1

----------------------------------------------------------------------------
(* Fixed-point arithmetic *)

\* fixed-point units per 1.0
Scale == 1000

Abs(x) == IF x < 0 THEN -x ELSE x

Sgn(x) == IF x > 0 THEN 1 ELSE IF x < 0 THEN -1 ELSE 0

\* quotient truncated towards zero
Quot(a, b) == IF a >= 0 THEN a \div b ELSE -((-a) \div b)

Min2(a, b) == IF a <= b THEN a ELSE b

\* value of an unset cell of the distance matrix
Unresolved == -1

\* np.linalg.norm of a vector (a, b) of fixed-point numbers, by bisection
RECURSIVE SqrtBisect(_, _, _)
SqrtBisect(v, lo, hi) ==
    IF hi - lo <= 1 THEN lo
    ELSE LET mid == (lo + hi) \div 2
         IN  IF mid * mid <= v THEN SqrtBisect(v, mid, hi)
                               ELSE SqrtBisect(v, lo, mid)

Norm2(a, b) == SqrtBisect(a * a + b * b, 0, Abs(a) + Abs(b) + 1)

----------------------------------------------------------------------------
(* Obstacles *)

\* the circles and the wall a scene is built from: axes_length,
\* margin_absolut, is_boundary
Kinds ==
    { [axes |-> <<1000, 1000>>, margin |-> 0,   is_boundary |-> FALSE],
      [axes |-> <<1000, 1000>>, margin |-> 500, is_boundary |-> FALSE] }

\* the centres the solid obstacles are placed at
Centers == {0, 1000, 3000}

\* Ellipse.axes_with_margin, first axis
axes_with_margin(o) ==
    IF o.is_boundary THEN o.axes[1] - o.margin ELSE o.axes[1] + o.margin

\* Ellipse.get_reference_length
get_reference_length(o) == Norm2(o.axes[1], o.axes[2]) + o.margin

\* Obstacle.transform_relative2global / transform_global2relative for an
\* unrotated obstacle
transform_relative2global(o, p) == o.center + p

transform_global2relative(o, p) == p - o.center


\* The wall: a boundary obstacle whose centre and radius keep every other
\* obstacle of the scene inside it
WallCenter == (-3) * Scale

Wall == [axes |-> <<8500, 8500>>, margin |-> 0, is_boundary |-> TRUE]

----------------------------------------------------------------------------
(* Gamma *)

\* margin of the entry test, 1e-4 (gradient_container.py:235), as 1/MarginDen
MarginDen == 10000

\* Obstacle.get_gamma(position, in_global_frame=True) <= 1 + margin.
\* A solid obstacle has Gamma = |x - c| / a (Ellipse.get_gamma_ellipse); a
\* boundary has the inverted Gamma = a / |x - c|.
gamma_leq_margin(o, x) ==
    LET u == Abs(transform_global2relative(o, x))
        a == axes_with_margin(o)
    IN  IF o.is_boundary
        THEN u # 0 /\ a * MarginDen <= u * (MarginDen + 1)
        ELSE u * MarginDen <= a * (MarginDen + 1)

\* Ellipse.get_gamma_ellipse(position) < 1 for a position in the local frame
gamma_ellipse_lt_one(o, p) == Abs(p) < axes_with_margin(o)

\* largest coordinate the descent keeps (a larger one overflows to +-Far)
Far == 40000

Clamp(x) == IF x > Far THEN Far ELSE IF x < -Far THEN -Far ELSE x

\* d/dx of get_gamma_cost_function(get_gamma(x)) along the axis, the limit of
\* the central difference of derivative_gamma_sum (delta_dist = 1e-6)
\*   solid obstacle, is_boundary=False cost:  |G|^3,  G = |u|/a
cost_derivative_solid(o, x) ==
    LET u  == Clamp(transform_global2relative(o, x))
        a  == axes_with_margin(o)
        q1 == Quot(u * Abs(u), a)
        q2 == Quot(q1 * Scale, a)
        q3 == Quot(Clamp(q2) * Scale, a)
    IN  3 * q3

\*   boundary obstacle: G = a/|u|, dG/dx = -sgn(u) a / u^2
boundary_gamma(o, x) ==
    LET u == Abs(transform_global2relative(o, x))
    IN  IF u = 0 THEN Far ELSE Min2(Far, Quot(axes_with_margin(o) * Scale, u))

boundary_gamma_slope(o, x) ==
    LET u == transform_global2relative(o, x)
    IN  IF u = 0 THEN 0
        ELSE -Sgn(u) * Min2(Far, Quot(boundary_gamma(o, x) * Scale, Abs(u)))

\*   boundary obstacle, is_boundary=True cost: 10 |G - 0.9|^2
cost_derivative_boundary(o, x) ==
    LET g == boundary_gamma(o, x)
    IN  Clamp(Quot(20 * Clamp(Quot((g - 900) * boundary_gamma_slope(o, x), Scale)), 1))

\*   boundary obstacle, is_boundary=False cost: |G|^3
cost_derivative_boundary_as_solid(o, x) ==
    LET g  == boundary_gamma(o, x)
        g2 == Clamp(Quot(g * g, Scale))
    IN  Clamp(3 * Clamp(Quot(g2 * boundary_gamma_slope(o, x), Scale)))

\* GradientContainer.derivative_gamma_sum: obs0 is always costed with the
\* default is_boundary=False, obs1 with its own flag
derivative_gamma_sum(position, obs0, obs1) ==
    LET d0 == IF obs0.is_boundary
              THEN cost_derivative_boundary_as_solid(obs0, position)
              ELSE cost_derivative_solid(obs0, position)
        d1 == IF obs1.is_boundary
              THEN cost_derivative_boundary(obs1, position)
              ELSE cost_derivative_solid(obs1, position)
    IN  d0 + d1

\* iteration cap of both descents
max_it == 100

\* step size of the Gamma descent in 1/100
gamma_step_size == 9

\* convergence_err = 1e-3 as 1/ConvergenceDen
ConvergenceDen == 1000

\* GradientContainer.gamma_gradient_descent: the loop from it_count on
RECURSIVE gamma_descent_loop(_, _, _, _)
gamma_descent_loop(obs0, obs1, common_point, it_count) ==
    LET delta_gamma == derivative_gamma_sum(common_point, obs0, obs1)
        step        == Quot(gamma_step_size * delta_gamma, 100)
        next_point  == Clamp(common_point - step)
        count       == it_count + 1
    IN  IF count > max_it \/ Abs(step) * ConvergenceDen < Scale
        THEN next_point
        ELSE gamma_descent_loop(obs0, obs1, next_point, count)

gamma_gradient_descent(obs0, obs1, common_point) ==
    gamma_descent_loop(obs0, obs1, common_point, 0)

----------------------------------------------------------------------------
(* State *)

VARIABLES
    dim,            \* dimension of the scene's obstacles (Obstacle.dim)
    obs,            \* _obstacle_list: center, kind, has_moved, reference_point
    dist,           \* _distance_matrix: the value list of the DistanceMatrix
    bref,           \* _boundary_reference_points[:, i, j], in i's local frame
    imat,           \* intersection_matrix: pair -> <<>> or <<point>>
    err,            \* "none", or the exception that left the last call
    op,             \* the last operation: its name, and for a completed
                    \* update_reference_points what it was called on
    moves,          \* number of moves and set_distance calls so far
    call            \* the last call of a function of utils.py, of the
                    \* Ellipse geometry or of the navigation comparison:
                    \* its name, its arguments and what it returned

vars == <<dim, obs, dist, bref, imat, err, op, moves, call>>

\* a call of the function fn on args that ended with result
Call(fn, args, result) == [fn |-> fn, args |-> args, result |-> result]

\* no function has been called
NoCall == Call("none", <<>>, <<>>)

Idx(n) == 1..n

\* the obstacle pairs (ii, jj), ii < jj, of a container of n obstacles
Pairs(n) == { pr \in Idx(n) \X Idx(n) : pr[1] < pr[2] }

----------------------------------------------------------------------------
(* DistanceMatrix: a symmetric matrix stored as the list of its cells below *)
(* the diagonal                                                            *)

\* get_index without the ordering of the two indices: an access with
\* row <= col lands in the first cell of the row's block
get_index_unordered(row, col) ==
    IF row > col THEN ((row - 1) * (row - 2)) \div 2 + col
    ELSE ((col - 1) * (col - 2)) \div 2 + 1

\* DistanceMatrix.get_index: the cell of the unordered pair {row, col}
get_index(row, col) ==
    LET hi == IF row > col THEN row ELSE col
        lo == IF row > col THEN col ELSE row
    IN  ((hi - 1) * (hi - 2)) \div 2 + lo

\* DistanceMatrix(n_obs): every cell unset
DistanceMatrix(n_obs) == [k \in 1..((n_obs * (n_obs - 1)) \div 2) |-> Unresolved]

\* an assignment that leaves the matrix as it is
dm_set_dropped(dm, ii, jj, value) == dm

\* DistanceMatrix.__setitem__
dm_set(dm, ii, jj, value) == [dm EXCEPT ![get_index(ii, jj)] = value]

\* GradientContainer.get_distance on a given matrix
get_distance_in(dm, ii, jj) ==
    LET d == dm[get_index(ii, jj)] IN IF d < 0 THEN -1 ELSE d

\* GradientContainer.get_distance
get_distance(ii, jj) == get_distance_in(dist, ii, jj)

\* GradientContainer.get_boundary_reference_point on given caches
get_boundary_reference_point_in(br, ii, jj) ==
    transform_relative2global(obs[ii], br[<<ii, jj>>])

get_boundary_reference_point(ii, jj) ==
    get_boundary_reference_point_in(bref, ii, jj)

\* GradientContainer.set_boundary_reference_point on given caches
set_boundary_reference_point(br, ii, jj, value) ==
    [br EXCEPT ![<<ii, jj>>] = transform_global2relative(obs[ii], value)]

\* Intersection_matrix(n): no pair has an entry
Intersection_matrix(n) == [pr \in Pairs(n) |-> <<>>]

----------------------------------------------------------------------------
(* Angle-space descent *)

\* pi in fixed point
Pi == 3141

\* contact_err = 1e-4 of angle_gradient_descent as 1/ContactDen
ContactDen == 10000

\* step size of the angle descent in 1/100
angle_step_size == 3

\* a radius point that stays at the centre
get_local_radius_point_of_center(o, direction) ==
    transform_relative2global(o, 0)

\* Ellipse.get_local_radius_point(direction, in_global_frame=True): the
\* surface point in a direction along the axis
get_local_radius_point(o, direction) ==
    transform_relative2global(o, Sgn(direction) * axes_with_margin(o))

\* get_angle_space(directions, OrthogonalBasisMatrix): the angle between a
\* vector along the axis and the basis direction: 0 when they point the
\* same way (or the vector is zero), pi when they are opposed
get_angle_space(directions, null_direction) ==
    IF Sgn(directions) * Sgn(null_direction) < 0 THEN Pi ELSE 0

\* get_angle_space_inverse(angle, NullMatrix): the direction at an angle of
\* 0 or pi from the basis direction
get_angle_space_inverse(angle, null_direction) ==
    IF angle = 0 THEN Sgn(null_direction) ELSE -Sgn(null_direction)

\* component along the axis of Obstacle.get_surface_derivative_angle_num at
\* an angle of 0 or pi: the derivative of a circle's surface point is
\* perpendicular to its radius
surface_derivative_axis(o, angle) == 0

\* the surface point of obstacle o at an angle (gradient_container.py:311-315
\* and 339-343)
surface_point_at(o, angle, null_direction) ==
    get_local_radius_point(o, get_angle_space_inverse(angle, null_direction))

\* an angle descent that, on contact, starts the Gamma descent from the
\* centre of obs0 and not from the mean of the two surface points
RECURSIVE angle_descent_from_center(_, _, _, _, _)
angle_descent_from_center(obs0, obs1, angles, nulls, it_count) ==
    LET ang0 == IF Abs(angles[1]) > Pi THEN 0 ELSE angles[1]
        ang1 == IF Abs(angles[2]) > Pi THEN 0 ELSE angles[2]
        sp0  == surface_point_at(obs0, ang0, nulls[1])
        sp1  == surface_point_at(obs1, ang1, nulls[2])
        dist_dir       == sp1 - sp0
        dist_magnitude == Abs(dist_dir)
        delta0 == -(dist_dir * surface_derivative_axis(obs0, ang0))
        delta1 == dist_dir * surface_derivative_axis(obs1, ang1)
        step0  == Quot(angle_step_size * Quot(delta0, 2 * dist_magnitude), 100)
        step1  == Quot(angle_step_size * Quot(delta1, 2 * dist_magnitude), 100)
        new0   == ang0 - step0
        new1   == ang1 - step1
        count  == it_count + 1
    IN  IF dist_magnitude * ContactDen < Scale
        THEN LET rp == gamma_gradient_descent(obs0, obs1, obs0.center)
             IN  [dist |-> 0, raised |-> FALSE, p0 |-> rp, p1 |-> rp]
        ELSE IF dim > 2
        THEN [dist |-> 0, raised |-> TRUE, p0 |-> 0, p1 |-> 0]
        ELSE IF count > max_it
                \/ Norm2(step0, step1) * ConvergenceDen < Scale
        THEN [dist |-> dist_magnitude, raised |-> FALSE,
              p0 |-> surface_point_at(obs0, new0, nulls[1]),
              p1 |-> surface_point_at(obs1, new1, nulls[2])]
        ELSE angle_descent_from_center(obs0, obs1, <<new0, new1>>, nulls,
                                       count)

\* GradientContainer.angle_gradient_descent: the loop from it_count on.
\* Result: raised, or dist with one reference point per obstacle.
RECURSIVE angle_descent_loop(_, _, _, _, _)
angle_descent_loop(obs0, obs1, angles, nulls, it_count) ==
    LET ang0 == IF Abs(angles[1]) > Pi THEN 0 ELSE angles[1]
        ang1 == IF Abs(angles[2]) > Pi THEN 0 ELSE angles[2]
        sp0  == surface_point_at(obs0, ang0, nulls[1])
        sp1  == surface_point_at(obs1, ang1, nulls[2])
        dist_dir       == sp1 - sp0
        dist_magnitude == Abs(dist_dir)
        delta0 == -(dist_dir * surface_derivative_axis(obs0, ang0))
        delta1 == dist_dir * surface_derivative_axis(obs1, ang1)
        step0  == Quot(angle_step_size * Quot(delta0, 2 * dist_magnitude), 100)
        step1  == Quot(angle_step_size * Quot(delta1, 2 * dist_magnitude), 100)
        new0   == ang0 - step0
        new1   == ang1 - step1
        count  == it_count + 1
    IN  IF dist_magnitude * ContactDen < Scale
        THEN \* is_intersecting: Gamma descent from the mean of the points
             LET rp == gamma_gradient_descent(obs0, obs1, Quot(sp0 + sp1, 2))
             IN  [dist |-> 0, raised |-> FALSE, p0 |-> rp, p1 |-> rp]
        ELSE IF dim > 2
        THEN \* angles has 2*(dim-1) entries, delta_angle has 2 (line 329)
             [dist |-> 0, raised |-> TRUE, p0 |-> 0, p1 |-> 0]
        ELSE IF count > max_it
                \/ Norm2(step0, step1) * ConvergenceDen < Scale
        THEN [dist |-> dist_magnitude, raised |-> FALSE,
              p0 |-> surface_point_at(obs0, new0, nulls[1]),
              p1 |-> surface_point_at(obs1, new1, nulls[2])]
        ELSE angle_descent_loop(obs0, obs1, <<new0, new1>>, nulls, count)

angle_gradient_descent(obs0, obs1, angles, nulls) ==
    angle_descent_loop(obs0, obs1, angles, nulls, 0)

----------------------------------------------------------------------------
(* update_boundary_reference_points *)

\* the caches the pass works on
Caches(d, b, i, e) == [dist |-> d, bref |-> b, imat |-> i, err |-> e]

\* the pass without the test of line 197: every pair is evaluated
pair_always_evaluated(ii, jj) == TRUE

\* "self[ii].has_moved or self[jj].has_moved" (gradient_container.py:197)
pair_has_moved(ii, jj) == obs[ii].has_moved \/ obs[jj].has_moved

\* body of the loop for the pair (ii, jj), gradient_container.py:196-283
resolve_pair(c, ii, jj) ==
    LET oi == obs[ii]
        oj == obs[jj]
        center_dists1 == oi.center - oj.center
        center_dists0 == IF oj.is_boundary THEN center_dists1
                                           ELSE -center_dists1
        is_close_for_the_first_time == get_distance_in(c.dist, ii, jj) < 0
        surf0 == IF is_close_for_the_first_time
                 THEN get_local_radius_point(oi, center_dists0)
                 ELSE get_boundary_reference_point_in(c.bref, ii, jj)
        surf1 == IF is_close_for_the_first_time
                 THEN get_local_radius_point(oj, center_dists1)
                 ELSE get_boundary_reference_point_in(c.bref, jj, ii)
        angle0 == IF is_close_for_the_first_time THEN 0
                  ELSE get_angle_space(surf0 - oi.center, center_dists0)
        angle1 == IF is_close_for_the_first_time THEN 0
                  ELSE get_angle_space(surf1 - oj.center, center_dists1)
    IN  IF ~pair_has_moved(ii, jj)
        THEN c
        ELSE IF gamma_leq_margin(oi, surf1) \/ gamma_leq_margin(oj, surf0)
        THEN \* intersecting: Gamma descent from the mean of the points
             LET reference_point ==
                     gamma_gradient_descent(oi, oj, Quot(surf0 + surf1, 2))
                 b1 == set_boundary_reference_point(c.bref, ii, jj,
                                                    reference_point)
                 b2 == set_boundary_reference_point(b1, jj, ii,
                                                    reference_point)
             IN  Caches(dm_set(c.dist, ii, jj, 0), b2,
                        [c.imat EXCEPT ![<<ii, jj>>] = <<reference_point>>],
                        c.err)
        ELSE IF ~is_close_for_the_first_time
                /\ (Abs(angle0) > Pi \/ Abs(angle1) > Pi)
        THEN \* line 267 calls the integer (kk+1)
             Caches(c.dist, c.bref, c.imat, "TypeError")
        ELSE LET r == angle_gradient_descent(oi, oj, <<angle0, angle1>>,
                                             <<center_dists0, center_dists1>>)
                 b1 == set_boundary_reference_point(c.bref, ii, jj, r.p0)
                 b2 == set_boundary_reference_point(b1, jj, ii, r.p1)
             IN  IF r.raised
                 THEN Caches(c.dist, c.bref, c.imat, "ValueError")
                 ELSE Caches(dm_set(c.dist, ii, jj, r.dist), b2,
                             IF r.dist <= 0
                             THEN [c.imat EXCEPT ![<<ii, jj>>] = <<r.p0>>]
                             ELSE c.imat,
                             c.err)

\* the pair after (ii, jj) in the order of the two nested loops
next_pair(n, ii, jj) == IF jj < n THEN <<ii, jj + 1>> ELSE <<ii + 1, ii + 2>>

\* the two nested loops from the pair (ii, jj) on; an exception ends them
RECURSIVE resolve_from(_, _, _, _)
resolve_from(c, n, ii, jj) ==
    IF ii > n - 1 \/ c.err # "none"
    THEN c
    ELSE LET nx == next_pair(n, ii, jj)
         IN  resolve_from(resolve_pair(c, ii, jj), n, nx[1], nx[2])

\* GradientContainer.update_boundary_reference_points
update_boundary_reference_points(c) == resolve_from(c, Len(obs), 1, 2)

----------------------------------------------------------------------------
(* get_reference_weight *)

\* 1/x of a fixed-point x > 0
Inv(x) == Quot(Scale * Scale, x)

\* sum of f over 1..n
RECURSIVE SumTo(_, _)
SumTo(f, n) == IF n = 0 THEN 0 ELSE f[n] + SumTo(f, n - 1)

\* defaults of get_reference_weight: distance_min=0, distance_max=3
distance_min == 0

distance_max == 3

\* the weights left normalised: no displacement factor
no_ref_displacement(distance, obs_reference_size, j) == Scale

\* weight_ref_displacement of neighbour j (utils.py:559-563)
weight_ref_displacement(distance, obs_reference_size, j) ==
    Inv(distance[j] + Scale - distance_min)
    - Inv(distance_max * obs_reference_size[j] + Scale - distance_min)

\* utils.get_reference_weight(distance, obs_reference_size), weight_pow=1
get_reference_weight(distance, obs_reference_size) ==
    LET n == Len(distance)
        zero_count == Cardinality({ j \in 1..n : distance[j] = 0 })
        ind_range(j) == /\ distance[j] > distance_min
                        /\ distance[j] < distance_max * Scale
        raw == [j \in 1..n |->
                   IF ind_range(j)
                   THEN Inv(distance[j] - distance_min)
                        - Inv(distance_max * Scale - distance_min)
                   ELSE 0]
        total == SumTo(raw, n)
        weights == [j \in 1..n |->
                       IF total = 0 THEN 0 ELSE Quot(raw[j] * Scale, total)]
    IN  IF \E j \in 1..n : distance[j] <= distance_min /\ distance[j] > 0
        THEN [j \in 1..n |->
                 IF distance[j] = 0 THEN Quot(Scale, zero_count) ELSE 0]
        ELSE IF ~ \E j \in 1..n : ind_range(j)
        THEN [j \in 1..n |-> 0]
        ELSE [j \in 1..n |->
                 IF ind_range(j)
                 THEN Quot(weights[j]
                           * weight_ref_displacement(distance,
                                                     obs_reference_size, j),
                           Scale)
                 ELSE 0]

----------------------------------------------------------------------------
(* update_reference_points *)

\* the distances row of obstacle ii (gradient_container.py:127-134)
distances_of(dm, ii) ==
    [jj \in 1..Len(obs) |-> IF ii = jj THEN -1 ELSE get_distance_in(dm, ii, jj)]

\* obs_reference_size (gradient_container.py:117-120)
obs_reference_size == [ii \in 1..Len(obs) |-> get_reference_length(obs[ii])]

\* the sum started from the obstacle's current reference point instead of
\* zeros
reference_point_accumulated(dm, br, ii) ==
    LET weights == get_reference_weight(distances_of(dm, ii),
                                        obs_reference_size)
        terms == [jj \in 1..Len(obs) |->
                     IF ii = jj THEN 0
                     ELSE Quot(transform_global2relative(obs[ii],
                               get_boundary_reference_point_in(br, ii, jj))
                               * weights[jj], Scale)]
    IN  obs[ii].reference_point + SumTo(terms, Len(obs))

\* the sum over the neighbours' points bref[jj][ii] instead of bref[ii][jj]
reference_point_transposed(dm, br, ii) ==
    LET weights == get_reference_weight(distances_of(dm, ii),
                                        obs_reference_size)
        terms == [jj \in 1..Len(obs) |->
                     IF ii = jj THEN 0
                     ELSE Quot(transform_global2relative(obs[ii],
                               get_boundary_reference_point_in(br, jj, ii))
                               * weights[jj], Scale)]
    IN  IF SumTo(weights, Len(obs)) # 0
        THEN SumTo(terms, Len(obs))
        ELSE 0

\* the reference point of obstacle ii in its local frame
\* (gradient_container.py:136-151)
reference_point_of(dm, br, ii) ==
    LET weights == get_reference_weight(distances_of(dm, ii),
                                        obs_reference_size)
        terms == [jj \in 1..Len(obs) |->
                     IF ii = jj THEN 0
                     ELSE Quot(transform_global2relative(obs[ii],
                               get_boundary_reference_point_in(br, ii, jj))
                               * weights[jj], Scale)]
    IN  IF SumTo(weights, Len(obs)) # 0
        THEN SumTo(terms, Len(obs))
        ELSE 0

\* the pairs a pass evaluates: one of the two obstacles has moved
moved_pairs == { pr \in Pairs(Len(obs)) : pair_has_moved(pr[1], pr[2]) }

Operation(name, evaluated, again) ==
    [name |-> name, evaluated |-> evaluated, again |-> again]

\* GradientContainer.update_reference_points
Resolve ==
    /\ err = "none"
    /\ Len(obs) >= 1
    /\ \E n \in {Len(obs)}, c \in {update_boundary_reference_points(
                    Caches(dist, bref, Intersection_matrix(Len(obs)), "none"))} :
           /\ dist' = c.dist
           /\ bref' = c.bref
           /\ imat' = c.imat
           /\ err' = c.err
           /\ IF c.err # "none"
              THEN \* reset_reference_points has run, nothing after the pass
                   /\ obs' = [k \in 1..n |->
                                [obs[k] EXCEPT !.reference_point = 0]]
                   /\ op' = Operation("raised", moved_pairs, FALSE)
              ELSE /\ obs' = [k \in 1..n |->
                                [obs[k] EXCEPT
                                   !.reference_point =
                                       IF obs[k].is_boundary THEN 0
                                       ELSE reference_point_of(c.dist,
                                                               c.bref, k),
                                   !.has_moved = FALSE]]
                   /\ op' = Operation("resolve", moved_pairs,
                                      op.name = "resolve")
    /\ UNCHANGED <<dim, moves, call>>

----------------------------------------------------------------------------
(* append, moves *)

NewObstacle(kind, position) ==
    [axes |-> kind.axes, margin |-> kind.margin,
     is_boundary |-> kind.is_boundary, center |-> position,
     has_moved |-> TRUE, reference_point |-> 0]

\* np.dstack((zeros((dim, n, 1)), np.hstack((old, zeros((dim, 1, n-1)))))):
\* hstack adds a zero row n below the old rows, dstack puts a zero column
\* before the old columns
grow_boundary_reference_points(old, n) ==
    [pr \in Idx(n) \X Idx(n) |->
        IF pr[2] = 1 \/ pr[1] = n THEN 0 ELSE old[<<pr[1], pr[2] - 1>>]]

\* the new DistanceMatrix of append (gradient_container.py:63-68)
RECURSIVE copy_distances(_, _, _)
copy_distances(new_dist_matr, old, todo) ==
    IF todo = {} THEN new_dist_matr
    ELSE LET pr == CHOOSE q \in todo : TRUE
         IN  copy_distances(dm_set(new_dist_matr, pr[1], pr[2],
                                   old[get_index(pr[1], pr[2])]),
                            old, todo \ {pr})

\* append without the copy loop
grow_distance_matrix_empty(old, n) == DistanceMatrix(n)

grow_distance_matrix(old, n) ==
    copy_distances(DistanceMatrix(n), old, Pairs(n - 1))

\* GradientContainer.append(value)
AppendObstacle(value) ==
    /\ err = "none"
    /\ Len(obs) < MaxObs
    /\ \A k \in 1..Len(obs) : obs[k].center # value.center
    /\ LET n == Len(obs) + 1
       IN  /\ obs' = Append(obs, value)
           /\ IF n = 1
              THEN /\ bref' = [pr \in Idx(1) \X Idx(1) |-> 0]
                   /\ dist' = DistanceMatrix(1)
              ELSE /\ bref' = grow_boundary_reference_points(bref, n)
                   /\ dist' = grow_distance_matrix(dist, n)
    /\ op' = Operation("append", {}, FALSE)
    /\ UNCHANGED <<dim, imat, err, moves, call>>

AppendAny ==
    \/ \E kind \in Kinds, position \in Centers :
           AppendObstacle(NewObstacle(kind, position))
    \/ AppendObstacle(NewObstacle(Wall, WallCenter))

\* a solid obstacle is moved to another centre and reports that it has moved
Move ==
    /\ err = "none"
    /\ moves < MaxMoves
    /\ \E k \in 1..Len(obs), position \in Centers :
           /\ ~obs[k].is_boundary
           /\ \A m \in 1..Len(obs) : obs[m].center # position
           /\ obs' = [obs EXCEPT ![k].center = position,
                                 ![k].has_moved = TRUE]
    /\ moves' = moves + 1
    /\ op' = Operation("move", {}, FALSE)
    /\ UNCHANGED <<dim, dist, bref, imat, err, call>>

----------------------------------------------------------------------------
(* The container *)

\* GradientContainer(): no obstacle, no cache
EmptyContainer ==
    /\ dim \in {2, 3}
    /\ obs = <<>>
    /\ dist = <<>>
    /\ bref = <<>>
    /\ imat = <<>>
    /\ err = "none"
    /\ op = Operation("init", {}, FALSE)
    /\ moves = 0

Init == EmptyContainer /\ call = NoCall

Next == AppendAny \/ Move \/ Resolve

Spec == Init /\ [][Next]_vars

TypeOK ==
    /\ dim \in {2, 3}
    /\ Len(obs) <= MaxObs
    /\ \A k \in 1..Len(obs) :
           /\ obs[k].center \in Centers \cup {WallCenter}
           /\ obs[k].has_moved \in BOOLEAN
           /\ obs[k].is_boundary \in BOOLEAN
           /\ obs[k].margin \in {0, 500}
           /\ obs[k].reference_point \in Int
    /\ DOMAIN bref = Idx(Len(obs)) \X Idx(Len(obs))
    /\ Len(dist) = (Len(obs) * (Len(obs) - 1)) \div 2
    /\ err \in {"none", "TypeError", "ValueError"}
    /\ moves \in 0..MaxMoves

----------------------------------------------------------------------------
(* set_distance from outside the container *)

\* the distances a caller stores
SetValues == {2000}

\* GradientContainer.set_distance(ii, jj, value)
SetDistance ==
    /\ err = "none"
    /\ moves < MaxMoves
    /\ \E ii \in 1..Len(obs), jj \in 1..Len(obs), value \in SetValues :
           /\ ii # jj
           /\ dist' = dm_set(dist, ii, jj, value)
    /\ moves' = moves + 1
    /\ op' = Operation("set_distance", {}, FALSE)
    /\ UNCHANGED <<dim, obs, bref, imat, err, call>>

\* the calls of a caller that appends, stores distances and runs passes
NextSet == AppendAny \/ Resolve \/ SetDistance

SpecSet == Init /\ [][NextSet]_vars

----------------------------------------------------------------------------
(* Properties *)

N == Len(obs)

\* the reference point of obstacle k in the global frame
global_reference_point(k) ==
    transform_relative2global(obs[k], obs[k].reference_point)

\* C1: a second update_reference_points right after a completed one (no
\* obstacle has moved in between) leaves every cached distance, every cached
\* boundary point and every reference point as the first call left them.
C1_Idempotent ==
    [][(op.name = "resolve" /\ op'.name = "resolve")
       => /\ dist' = dist
          /\ bref' = bref
          /\ \A k \in 1..N :
                 obs'[k].reference_point = obs[k].reference_point]_vars

\* two calls in a row on a scene with a separated pair in range and a
\* relocated reference point
C1_Witness ==
    /\ op.name = "resolve" /\ op.again
    /\ \E pr \in Pairs(N) : get_distance(pr[1], pr[2]) > 0
    /\ \E k \in 1..N : obs[k].reference_point # 0

\* C2 (as claimed): append on a container of n >= 1 obstacles keeps
\* dist[i][j] and bref[i][j] of every pre-existing i, j and leaves the new
\* obstacle's row and column unresolved (-1) and at the local origin.
C2_AppendFrame ==
    [][(op'.name = "append" /\ N >= 1)
       => /\ \A i \in 1..N, j \in 1..N :
                 /\ bref'[<<i, j>>] = bref[<<i, j>>]
                 /\ i # j => get_distance_in(dist', i, j) = get_distance(i, j)
          /\ \A i \in 1..N :
                 /\ get_distance_in(dist', i, N + 1) = -1
                 /\ bref'[<<i, N + 1>>] = 0
                 /\ bref'[<<N + 1, i>>] = 0]_vars

\* C3 (as claimed): update_boundary_reference_points never raises, and a
\* pass ends with a distance stored for every pair it re-evaluated.
C3_Total ==
    /\ err = "none"
    /\ op.name = "resolve"
           => \A pr \in op.evaluated : get_distance(pr[1], pr[2]) >= 0

\* C4 (as claimed): after a completed pass every pair resolved as
\* Intersecting has distance 0 and both its obstacles have the converged
\* point as their reference point in the global frame.
C4_SharedReference ==
    op.name = "resolve"
        => \A pr \in Pairs(N) :
               imat[pr] # <<>>
                   => /\ get_distance(pr[1], pr[2]) = 0
                      /\ global_reference_point(pr[1]) = imat[pr][1]
                      /\ global_reference_point(pr[2]) = imat[pr][1]

weights_of(k) == get_reference_weight(distances_of(dist, k), obs_reference_size)

\* C6: after a completed update_reference_points the reference point of a
\* non-boundary obstacle k is the sum over the other obstacles j of
\* bref[k][j] times the weight from dist[k][j], and the local origin when
\* all weights are zero.
C6_WeightedSum ==
    op.name = "resolve"
        => \A k \in 1..N :
               ~obs[k].is_boundary
                   => LET w == weights_of(k)
                          part == [j \in 1..N |->
                                     IF j = k THEN 0
                                     ELSE Quot(bref[<<k, j>>] * w[j], Scale)]
                      IN  obs[k].reference_point =
                              IF \A j \in 1..N : w[j] = 0
                              THEN 0 ELSE SumTo(part, N)

\* a completed pass on three obstacles: one is moved towards a neighbour in
\* range, another has no neighbour with a weight
C6_Witness ==
    /\ op.name = "resolve" /\ N = 3
    /\ \E k \in 1..N :
           /\ ~obs[k].is_boundary
           /\ \E j \in 1..N : weights_of(k)[j] > 0
           /\ obs[k].reference_point # 0
    /\ \E k \in 1..N :
           /\ ~obs[k].is_boundary
           /\ \A j \in 1..N : weights_of(k)[j] = 0

\* C7 (as claimed): after every completed update_reference_points the
\* intersection map has an entry for exactly the pairs whose cached distance
\* is 0.
C7_MapMatchesDistances ==
    op.name = "resolve"
        => \A pr \in Pairs(N) :
               (imat[pr] # <<>>) <=> (get_distance(pr[1], pr[2]) = 0)

\* the pairs a step evaluates and stores: those of a completed pass
stored_by_step(o) == IF o.name = "resolve" THEN o.evaluated ELSE {}

\* C8: get_distance is -1 for the pairs no pass has evaluated and >= 0 for
\* the others, and a pair that has a distance keeps one through append,
\* moves and later passes.
C8_NeverUnresolvedAgain ==
    [][\A pr \in Pairs(Len(obs')) :
          LET before == pr \in Pairs(N) /\ get_distance(pr[1], pr[2]) >= 0
              after  == get_distance_in(dist', pr[1], pr[2])
          IN  /\ after = -1 \/ after >= 0
              /\ before => after >= 0
              /\ op'.name # "raised"
                     => (after >= 0 <=> (before \/ pr \in stored_by_step(op')))
      ]_vars

\* an append onto resolved obstacles: old pairs keep their distance, the
\* new pairs have none
C8_Witness ==
    /\ op.name = "append"
    /\ \E pr \in Pairs(N) : get_distance(pr[1], pr[2]) >= 0
    /\ \E pr \in Pairs(N) : get_distance(pr[1], pr[2]) = -1

\* C9: a pass changes dist[i][j], bref[i][j] and bref[j][i] only for pairs
\* with a moved obstacle, and no other cell of the two caches.
C9_OnlyMovedPairs ==
    [][(op'.name \in {"resolve", "raised"})
       => /\ \A pr \in Pairs(N) :
                 ~(obs[pr[1]].has_moved \/ obs[pr[2]].has_moved)
                     => /\ dist'[get_index(pr[1], pr[2])]
                               = dist[get_index(pr[1], pr[2])]
                        /\ bref'[pr] = bref[pr]
                        /\ bref'[<<pr[2], pr[1]>>] = bref[<<pr[2], pr[1]>>]
          /\ \A k \in 1..N : bref'[<<k, k>>] = bref[<<k, k>>]]_vars

\* a completed pass that evaluated some pairs and skipped a resolved one
C9_Witness ==
    /\ op.name = "resolve"
    /\ op.evaluated # {}
    /\ \E pr \in Pairs(N) \ op.evaluated : get_distance(pr[1], pr[2]) >= 0

\* C10: get_distance(i, j) = get_distance(j, i) for all i # j in every
\* state reached by append, set_distance and passes.
C10_Symmetric ==
    \A i \in 1..N, j \in 1..N :
        i # j => get_distance(i, j) = get_distance(j, i)

\* three obstacles whose three pairs hold different cells
C10_Witness ==
    /\ N = 3
    /\ get_distance(1, 3) # get_distance(2, 3)
    /\ get_distance(1, 2) # get_distance(1, 3)
    /\ op.name = "set_distance"

----------------------------------------------------------------------------
(* Exact fractions *)

RECURSIVE Gcd(_, _)
Gcd(a, b) == IF b = 0 THEN a ELSE Gcd(b, a % b)

\* the fraction n/d, d > 0, in lowest terms
Rat(n, d) == LET g == Gcd(Abs(n), d) IN <<n \div g, d \div g>>

RatZero == Rat(0, 1)

RatOne == Rat(1, 1)

RatAdd(a, b) ==
    LET g == Gcd(a[2], b[2])
    IN  Rat(a[1] * (b[2] \div g) + b[1] * (a[2] \div g), a[2] * (b[2] \div g))

\* a / b for b > 0
RatDiv(a, b) == Rat(a[1] * b[2], a[2] * b[1])

RatEq(a, b) == a[1] * b[2] = b[1] * a[2]

RatLeq(a, b) == a[1] * b[2] <= b[1] * a[2]

\* np.sum of a sequence of fractions
RECURSIVE RatSum(_, _)
RatSum(f, n) == IF n = 0 THEN RatZero ELSE RatAdd(f[n], RatSum(f, n - 1))

----------------------------------------------------------------------------
(* compute_weights (utils.py) *)

\* largest number of obstacles in a list of Gamma values
MaxPoints == 3

\* a finite Gamma is written in halves: g stands for g / GammaDen
GammaDen == 2

Finite(g) == <<"finite", g>>

\* a finite double so large that (1/(Gamma-1))**2 underflows to 0.0
\* (Gamma above about 1e154)
GammaHuge == <<"huge", 0>>

\* float("inf")
GammaInf == <<"inf", 0>>

GammaValues == { Finite(g) : g \in {0, 1, 2, 3, 4, 6} } \cup {GammaHuge, GammaInf}

GammaLists == UNION { [1..n -> GammaValues] : n \in 1..MaxPoints }

\* what compute_weights returns, and whether it called warnings.warn
WeightsResult(weights, warned) == [weights |-> weights, warned |-> warned]

\* distMeas <= distMeas_lowerLimit, with distMeas_lowerLimit = 1
is_critical(gamma) == gamma[1] = "finite" /\ gamma[2] <= GammaDen

\* (1/(distMeas - distMeas_lowerLimit))**weightPow, weightPow = 2, of a
\* Gamma > 1
inverse_square(gamma) ==
    IF gamma[1] = "finite"
    THEN Rat(GammaDen * GammaDen, (gamma[2] - GammaDen) * (gamma[2] - GammaDen))
    ELSE RatZero

\* every penetrated obstacle gets the weight 1.0
critical_weights_unsplit(critical_points) ==
    WeightsResult([i \in DOMAIN critical_points |->
                      IF critical_points[i] THEN RatOne ELSE RatZero],
                  Cardinality({ i \in DOMAIN critical_points :
                                   critical_points[i] }) > 1)

\* utils.py:343-350: the weights when some Gamma <= 1
critical_weights(critical_points) ==
    LET k == Cardinality({ i \in DOMAIN critical_points : critical_points[i] })
    IN  IF k = 1
        THEN WeightsResult([i \in DOMAIN critical_points |->
                               IF critical_points[i] THEN RatOne ELSE RatZero],
                           FALSE)
        ELSE WeightsResult([i \in DOMAIN critical_points |->
                               IF critical_points[i] THEN Rat(1, k)
                                                     ELSE RatZero],
                           TRUE)

\* the inverse squares returned as they are
inverse_gamma_weights_unnormalized(distMeas) ==
    WeightsResult([i \in DOMAIN distMeas |-> inverse_square(distMeas[i])],
                  FALSE)

\* utils.py:352-360: weightType 'inverseGamma' when every Gamma > 1
inverse_gamma_weights(distMeas) ==
    LET w     == [i \in DOMAIN distMeas |-> inverse_square(distMeas[i])]
        total == RatSum(w, Len(distMeas))
    IN  IF total[1] = 0
        THEN WeightsResult(w, FALSE)
        ELSE WeightsResult([i \in DOMAIN distMeas |-> RatDiv(w[i], total)],
                           FALSE)

\* compute_weights(distMeas) with the default arguments
compute_weights(distMeas) ==
    LET critical_points == [i \in DOMAIN distMeas |-> is_critical(distMeas[i])]
    IN  IF \E i \in DOMAIN distMeas : critical_points[i]
        THEN critical_weights(critical_points)
        ELSE inverse_gamma_weights(distMeas)

\* the container is not touched by the functions below
Idle == UNCHANGED <<dim, obs, dist, bref, imat, err, op, moves>>

InitWeights ==
    /\ EmptyContainer /\ dim = 2
    /\ call \in { Call("distMeas", g, <<>>) : g \in GammaLists }

ComputeWeights ==
    /\ call.fn = "distMeas"
    /\ call' = Call("compute_weights", call.args, compute_weights(call.args))
    /\ Idle

SpecWeights == InitWeights /\ [][ComputeWeights]_vars

\* the weights are >= 0 and sum to 1
weights_normalized(r) ==
    /\ \A i \in DOMAIN r.weights : r.weights[i][1] >= 0 /\ r.weights[i][2] > 0
    /\ RatEq(RatSum(r.weights, Len(r.weights)), RatOne)

\* C11 (as claimed): compute_weights returns weights >= 0 that sum to 1 for
\* every list of Gamma values of which at least one is finite.
C11_NormalizedIfFinite ==
    (call.fn = "compute_weights"
     /\ \E i \in DOMAIN call.args : call.args[i][1] # "inf")
        => weights_normalized(call.result)

\* C11 (amended): compute_weights returns weights >= 0 that sum to 1 for
\* every list of Gamma values in which some Gamma is <= 1, or every Gamma is
\* > 1 and the inverse square of some Gamma - 1 is not 0.0.
C11_NormalizedIfWeighted ==
    (call.fn = "compute_weights"
     /\ \E i \in DOMAIN call.args :
            \/ is_critical(call.args[i])
            \/ inverse_square(call.args[i])[1] > 0)
        => weights_normalized(call.result)

\* three obstacles outside: two at different finite Gamma, one too far to
\* have a weight
C11_Witness ==
    /\ call.fn = "compute_weights"
    /\ Len(call.args) = 3
    /\ \A i \in 1..3 : ~is_critical(call.args[i])
    /\ \E i \in 1..3 : call.args[i] = GammaHuge
    /\ \E i \in 1..3, j \in 1..3 :
           /\ call.result.weights[i][1] > 0
           /\ call.result.weights[j][1] > 0
           /\ ~RatEq(call.result.weights[i], call.result.weights[j])

\* the obstacles of the last call with Gamma <= 1
penetrated == { i \in DOMAIN call.args : is_critical(call.args[i]) }

\* C12: with exactly one Gamma <= 1 that obstacle has weight 1 and the
\* others 0; with k > 1 of them each has weight 1/k, the others 0, and a
\* warning is issued.
C12_PenetratedDominate ==
    (call.fn = "compute_weights" /\ penetrated # {})
        => LET k == Cardinality(penetrated)
               r == call.result
           IN  /\ \A i \in DOMAIN call.args :
                      IF i \in penetrated
                      THEN RatEq(r.weights[i], Rat(1, k))
                      ELSE r.weights[i][1] = 0
               /\ k > 1 => r.warned

\* two penetrated obstacles and one outside
C12_Witness ==
    /\ call.fn = "compute_weights"
    /\ Len(call.args) = 3
    /\ Cardinality(penetrated) = 2
    /\ \E i \in 1..3 : call.args[i] = Finite(3)
    /\ call.result.warned

----------------------------------------------------------------------------
(* Modulation of a velocity by one obstacle (utils.py) *)

RatMul(a, b) ==
    LET g == Gcd(Abs(a[1]), b[2])
        h == Gcd(Abs(b[1]), a[2])
    IN  Rat((a[1] \div g) * (b[1] \div h), (a[2] \div h) * (b[2] \div g))

RatNeg(a) == <<-a[1], a[2]>>

RatSub(a, b) == RatAdd(a, RatNeg(b))

\* a / b for b # 0
RatQuot(a, b) ==
    IF b[1] > 0 THEN Rat(a[1] * b[2], a[2] * b[1])
                ELSE Rat(-(a[1] * b[2]), a[2] * (-b[1]))

\* planar vectors of fractions
Vec(x, y) == <<x, y>>

VecScale(c, u) == Vec(RatMul(c, u[1]), RatMul(c, u[2]))

VecAdd(u, v) == Vec(RatAdd(u[1], v[1]), RatAdd(u[2], v[2]))

VecNeg(u) == Vec(RatNeg(u[1]), RatNeg(u[2]))

\* np.dot of two vectors
Dot(u, v) == RatAdd(RatMul(u[1], v[1]), RatMul(u[2], v[2]))

\* a 2x2 matrix is the pair of its columns; M.dot(v)
MatVec(M, v) == VecAdd(VecScale(v[1], M[1]), VecScale(v[2], M[2]))

\* the determinant of the matrix with the columns u, v
Det2(u, v) == RatSub(RatMul(u[1], v[2]), RatMul(u[2], v[1]))

\* np.linalg.inv of a 2x2 matrix with a non-zero determinant
Inverse2(M) ==
    LET det == Det2(M[1], M[2])
    IN  << Vec(RatQuot(M[2][2], det), RatQuot(RatNeg(M[1][2]), det)),
           Vec(RatQuot(RatNeg(M[2][1]), det), RatQuot(M[1][1], det)) >>

\* unit vectors with rational coordinates
UnitDirections ==
    { u \in { Vec(Rat(x, 5), Rat(y, 5)) :
                 x \in {-5, -4, -3, 0, 3, 4, 5},
                 y \in {-5, -4, -3, 0, 3, 4, 5} } :
        RatEq(Dot(u, u), RatOne) }

\* nominal velocities
Velocities == { Vec(Rat(x, 1), Rat(y, 1)) : x \in {-1, 0, 1}, y \in {-1, 0, 1} }

\* Gamma at the query point
ModulationGammas == {Rat(1, 2), Rat(1, 1), Rat(3, 2), Rat(2, 1), Rat(4, 1)}

\* compute_diagonal_matrix with eigenvalue_tangent = 1 - delta_eigenvalue
compute_diagonal_matrix_shrinking(Gamma, dimension) ==
    LET delta_eigenvalue == IF RatLeq(Gamma, RatOne) THEN RatOne
                            ELSE RatQuot(RatOne, Gamma)
    IN  [k \in 1..dimension |-> RatSub(RatOne, delta_eigenvalue)]

\* compute_diagonal_matrix with eigenvalue_reference = 1 + delta_eigenvalue
compute_diagonal_matrix_attracting(Gamma, dimension) ==
    LET delta_eigenvalue == IF RatLeq(Gamma, RatOne) THEN RatOne
                            ELSE RatQuot(RatOne, Gamma)
    IN  [k \in 1..dimension |-> RatAdd(RatOne, delta_eigenvalue)]

\* compute_diagonal_matrix(Gamma, dim) with the default arguments (rho = 1,
\* repulsion_coeff = 1, tangent_eigenvalue_isometric, treat_obstacle_special):
\* the diagonal of the matrix it returns
compute_diagonal_matrix(Gamma, dimension) ==
    LET delta_eigenvalue == IF RatLeq(Gamma, RatOne) THEN RatOne
                            ELSE RatQuot(RatOne, Gamma)
        eigenvalue_reference == RatSub(RatOne, delta_eigenvalue)
        eigenvalue_tangent   == RatAdd(RatOne, delta_eigenvalue)
    IN  [k \in 1..dimension |->
            IF k = 1 THEN eigenvalue_reference ELSE eigenvalue_tangent]

\* get_orthogonal_basis(normal_vector) in the plane: the normal and the
\* normal turned by a quarter
get_orthogonal_basis(vector) == << vector, Vec(RatNeg(vector[2]), vector[1]) >>

\* compute_decomposition_matrix for an obstacle that is not non-starshaped,
\* given its unit normal and its reference direction at the query point:
\* the pair (E, E_orth)
compute_decomposition_matrix(normal_vector, reference_direction) ==
    LET E_orth == get_orthogonal_basis(normal_vector)
    IN  << << VecNeg(reference_direction), E_orth[2] >>, E_orth >>

\* E . D . E_orth^-1 . velocity
modulated_velocity(Gamma, normal_vector, reference_direction, velocity) ==
    LET EE == compute_decomposition_matrix(normal_vector, reference_direction)
        D  == compute_diagonal_matrix(Gamma, 2)
        local == MatVec(Inverse2(EE[2]), velocity)
    IN  MatVec(EE[1], Vec(RatMul(D[1], local[1]), RatMul(D[2], local[2])))

InitModulation ==
    /\ EmptyContainer /\ dim = 2
    /\ \/ call \in { Call("Gamma, dim", <<g, d>>, <<>>) :
                        g \in ModulationGammas, d \in {2, 3} }
       \/ call \in { Call("Gamma, normal, reference, velocity",
                          <<g, n, r, v>>, <<>>) :
                        g \in ModulationGammas, n \in UnitDirections,
                        r \in UnitDirections, v \in Velocities }

ComputeDiagonalMatrix ==
    /\ call.fn = "Gamma, dim"
    /\ call' = Call("compute_diagonal_matrix", call.args,
                    compute_diagonal_matrix(call.args[1], call.args[2]))
    /\ Idle

Modulate ==
    /\ call.fn = "Gamma, normal, reference, velocity"
    /\ call' = Call("modulate", call.args,
                    modulated_velocity(call.args[1], call.args[2],
                                       call.args[3], call.args[4]))
    /\ Idle

NextModulation == ComputeDiagonalMatrix \/ Modulate

SpecModulation == InitModulation /\ [][NextModulation]_vars

\* C13: at Gamma = 1 compute_diagonal_matrix returns diag(0, 2, ..., 2), and
\* the modulated velocity of every velocity has no component along the
\* reference column of E: it is a multiple of the tangent column.
C13_TangentialAtContact ==
    /\ (call.fn = "compute_diagonal_matrix" /\ RatEq(call.args[1], RatOne))
           => \A k \in 1..call.args[2] :
                  call.result[k] = IF k = 1 THEN RatZero ELSE Rat(2, 1)
    /\ (call.fn = "modulate" /\ RatEq(call.args[1], RatOne))
           => /\ Det2(call.result, get_orthogonal_basis(call.args[2])[2])[1] = 0
              /\ call.result
                     = VecScale(RatMul(Rat(2, 1),
                                       Dot(get_orthogonal_basis(call.args[2])[2],
                                           call.args[4])),
                                get_orthogonal_basis(call.args[2])[2])

\* at Gamma = 1, a velocity with a normal and a tangential part and a
\* reference direction that is not along the normal
C13_Witness ==
    /\ call.fn = "modulate"
    /\ RatEq(call.args[1], RatOne)
    /\ Dot(call.args[2], call.args[4])[1] < 0
    /\ Det2(call.args[2], call.args[3])[1] # 0
    /\ call.result # Vec(RatZero, RatZero)

\* C14: for Gamma > 1 and a velocity whose component along the normal is
\* negative, the component along the normal of the modulated velocity is >=
\* that of the velocity.
C14_NonPenetration ==
    (/\ call.fn = "modulate"
     /\ ~RatLeq(call.args[1], RatOne)
     /\ Dot(call.args[2], call.args[4])[1] < 0)
        => RatLeq(Dot(call.args[2], call.args[4]),
                  Dot(call.args[2], call.result))

\* an inbound velocity at Gamma > 1 that keeps a negative normal component,
\* strictly smaller in size
C14_Witness ==
    /\ call.fn = "modulate"
    /\ ~RatLeq(call.args[1], RatOne)
    /\ Dot(call.args[2], call.args[4])[1] < 0
    /\ Dot(call.args[2], call.result)[1] < 0
    /\ ~RatLeq(Dot(call.args[2], call.result), Dot(call.args[2], call.args[4]))
    /\ Det2(call.args[2], call.args[3])[1] # 0

----------------------------------------------------------------------------
(* Ellipse geometry in the plane (ellipse_obstacles.py), in the local frame *)
(* of an unrotated ellipse of curvature 1                                   *)

\* the ellipses: axes_length, margin_absolut, is_boundary
Ellipses ==
    { [axes |-> <<2, 1>>, margin |-> 0, is_boundary |-> FALSE],
      [axes |-> <<1, 1>>, margin |-> 1, is_boundary |-> FALSE],
      [axes |-> <<2, 1>>, margin |-> 1, is_boundary |-> FALSE] }

\* Ellipse.axes_with_margin, both axes
axes_with_margin_vector(o) ==
    [k \in 1..2 |-> IF o.is_boundary THEN Rat(o.axes[k] - o.margin, 1)
                                     ELSE Rat(o.axes[k] + o.margin, 1)]

\* whole square root of a natural number below 2^31
IntSqrt(n) == SqrtBisect(n, 0, Min2(n, 46340) + 1)

\* the fraction q >= 0 is the square of a fraction
HasRatSqrt(q) ==
    /\ q[1] >= 0
    /\ IntSqrt(q[1]) * IntSqrt(q[1]) = q[1]
    /\ IntSqrt(q[2]) * IntSqrt(q[2]) = q[2]

\* np.sqrt of the square of a fraction
RatSqrt(q) == Rat(IntSqrt(q[1]), IntSqrt(q[2]))

\* np.sqrt(q) of any fraction q >= 0, kept as the root of q
np_sqrt(q) == <<"sqrt", q>>

\* the root s equals, is below, is above the fraction r >= 0
RootEq(s, r) == RatEq(s[2], RatMul(r, r))

RootLess(s, r) == ~RatLeq(RatMul(r, r), s[2])

RootGreater(s, r) == ~RatLeq(s[2], RatMul(r, r))

\* sum((position/axes)**2)
sum_of_squares(position, axes) ==
    RatAdd(RatMul(RatQuot(position[1], axes[1]), RatQuot(position[1], axes[1])),
           RatMul(RatQuot(position[2], axes[2]), RatQuot(position[2], axes[2])))

\* get_gamma_ellipse with axes = self.axes_length
get_gamma_ellipse_without_margin(o, position) ==
    IF position = Vec(RatZero, RatZero)
    THEN np_sqrt(RatZero)
    ELSE np_sqrt(sum_of_squares(position,
                                [k \in 1..2 |-> Rat(o.axes[k], 1)]))

\* Ellipse.get_gamma_ellipse(position) for one position in the local frame
get_gamma_ellipse(o, position) ==
    IF position = Vec(RatZero, RatZero)
    THEN np_sqrt(RatZero)
    ELSE np_sqrt(sum_of_squares(position, axes_with_margin_vector(o)))

\* positions with coordinates in fifths
MaxCoordinate == 3

Positions ==
    { Vec(Rat(x, 5), Rat(y, 5)) :
          x \in (-5 * MaxCoordinate)..(5 * MaxCoordinate),
          y \in (-5 * MaxCoordinate)..(5 * MaxCoordinate) }

InitGamma ==
    /\ EmptyContainer /\ dim = 2
    /\ call \in { Call("ellipse, position", <<o, x>>, <<>>) :
                     o \in Ellipses, x \in Positions }

GetGammaEllipse ==
    /\ call.fn = "ellipse, position"
    /\ call' = Call("get_gamma_ellipse", call.args,
                    get_gamma_ellipse(call.args[1], call.args[2]))
    /\ Idle

SpecGamma == InitGamma /\ [][GetGammaEllipse]_vars

\* x^2 (a1+m)^2 + y^2 (a0+m)^2 - (a0+m)^2 (a1+m)^2 of a position (x, y):
\* 0 on the margin-inflated surface, > 0 outside it, < 0 inside it
surface_side(o, position) ==
    LET a0 == Rat(o.axes[1] + o.margin, 1)
        a1 == Rat(o.axes[2] + o.margin, 1)
    IN  RatSub(RatAdd(RatMul(RatMul(position[1], position[1]), RatMul(a1, a1)),
                      RatMul(RatMul(position[2], position[2]), RatMul(a0, a0))),
               RatMul(RatMul(a0, a0), RatMul(a1, a1)))[1]

\* C18: get_gamma_ellipse is >= 0, equals 1 exactly on the margin-inflated
\* surface, is > 1 strictly outside and < 1 strictly inside; with axes
\* (2, 1) and no margin gamma((1,0)) = 0.5 and gamma((2,0)) = 1.
C18_GammaOfEllipse ==
    call.fn = "get_gamma_ellipse"
        => LET o == call.args[1]
               position == call.args[2]
               gamma == call.result
           IN  /\ gamma[2][1] >= 0
               /\ surface_side(o, position) = 0 <=> RootEq(gamma, RatOne)
               /\ surface_side(o, position) > 0 <=> RootGreater(gamma, RatOne)
               /\ surface_side(o, position) < 0 <=> RootLess(gamma, RatOne)
               /\ (o.axes = <<2, 1>> /\ o.margin = 0)
                      => /\ position = Vec(RatOne, RatZero)
                                => RootEq(gamma, Rat(1, 2))
                         /\ position = Vec(Rat(2, 1), RatZero)
                                => RootEq(gamma, RatOne)

\* a point off the axes on the surface of an ellipse with a margin
C18_Witness ==
    /\ call.fn = "get_gamma_ellipse"
    /\ call.args[1].margin > 0
    /\ call.args[2][1][1] # 0 /\ call.args[2][2][1] # 0
    /\ RootEq(call.result, RatOne)

----------------------------------------------------------------------------
(* Ellipse.get_intersection_with_surface (ellipse_obstacles.py:418-511)     *)

\* results: the returned points, the bare return, or the exception raised
Points(points) == <<"points", points>>

ReturnsNone == <<"None", <<>>>>

Raises(exception) == <<exception, <<>>>>

Exceptions == {"NameError", "NotImplementedError"}

\* the argument edge_point: None or a point of the local frame
NoEdgePoint == <<"None", Vec(RatZero, RatZero)>>

EdgePoint(point) == <<"point", point>>

\* m = direction[1]/direction[0]
slope(direction) == RatQuot(direction[2], direction[1])

\* c = edge_point[1] - m*edge_point[0]
intercept(edge_point, direction) ==
    RatSub(edge_point[2], RatMul(slope(direction), edge_point[1]))

\* D = B*B - 4*A*C, as <<A, B, D>>
quadratic(axes, edge_point, direction) ==
    LET m == slope(direction)
        c == intercept(edge_point, direction)
        A == RatAdd(RatMul(RatMul(axes[1], m), RatMul(axes[1], m)),
                    RatMul(axes[2], axes[2]))
        B == RatMul(RatMul(Rat(2, 1), RatMul(axes[1], axes[1])), RatMul(m, c))
        C == RatSub(RatMul(RatMul(axes[1], c), RatMul(axes[1], c)),
                    RatMul(RatMul(axes[1], axes[2]), RatMul(axes[1], axes[2])))
    IN  <<A, B, RatSub(RatMul(B, B), RatMul(Rat(4, 1), RatMul(A, C)))>>

discriminant(o, edge_point, direction) ==
    quadratic(axes_with_margin_vector(o), edge_point, direction)[3]

\* np.copysign(a, b) for b # -0.0
copysign(a, b) == IF b[1] < 0 THEN RatNeg(a) ELSE a

\* the point of the line x_2 = m*x_1 + c over x_1
point_on_line(x, m, c) == Vec(x, RatAdd(RatMul(x, m), c))

\* the branch direction[0] != 0 (lines 474-503)
roots(axes, edge_point, direction, only_positive_direction, sqrt_imported) ==
    LET q == quadratic(axes, edge_point, direction)
        m == slope(direction)
        c == intercept(edge_point, direction)
        sqrtD == RatSqrt(q[3])
        plus == RatQuot(RatAdd(RatNeg(q[2]), sqrtD), RatMul(Rat(2, 1), q[1]))
        minus == RatQuot(RatSub(RatNeg(q[2]), sqrtD), RatMul(Rat(2, 1), q[1]))
    IN  IF q[3][1] < 0
        THEN ReturnsNone
        ELSE IF only_positive_direction
        THEN IF RatQuot(RatSub(plus, edge_point[1]), direction[1])[1] > 0
             THEN Points(<<point_on_line(minus, m, c)>>)
             ELSE Points(<<point_on_line(plus, m, c)>>)
        ELSE IF ~sqrt_imported
        THEN Raises("NameError")
        ELSE Points(<<point_on_line(plus, m, c), point_on_line(minus, m, c)>>)

\* get_intersection_with_surface(edge_point, direction,
\*                               only_positive_direction) in the local frame;
\* sqrt_imported: one of the star imports of the module provides sqrt
get_intersection_with_surface(o, edge_point, direction, only_positive_direction, sqrt_imported) ==
    LET axes == axes_with_margin_vector(o)
    IN  IF edge_point = NoEdgePoint
        THEN IF ~only_positive_direction
             THEN Raises("NameError")
             ELSE Points(<<VecScale(
                      RatQuot(RatOne, RatSqrt(sum_of_squares(direction, axes))),
                      direction)>>)
        ELSE IF direction[1] = RatZero
        THEN IF only_positive_direction
             THEN Points(<<Vec(edge_point[2][1],
                               copysign(axes[2], direction[2]))>>)
             ELSE Points(<<Vec(edge_point[2][1], axes[2]),
                           Vec(edge_point[2][1], RatNeg(axes[2]))>>)
        ELSE roots(axes, edge_point[2], direction, only_positive_direction,
                   sqrt_imported)

\* get_local_radius_point(direction)
get_local_radius_point_2d(o, direction) ==
    get_intersection_with_surface(o, NoEdgePoint, direction, TRUE, TRUE)

\* the inputs: directions and start points
Directions ==
    { Vec(Rat(x, 1), Rat(y, 1)) :
          x \in {-8, -6, -3, -1, 0, 1, 3, 6, 8},
          y \in {-4, -3, -1, 0, 1, 3, 4} } \ {Vec(RatZero, RatZero)}

MaxEdge == 3

EdgePoints ==
    { Vec(Rat(x, 1), Rat(y, 1)) : x \in (-MaxEdge)..MaxEdge,
                                  y \in (-MaxEdge)..MaxEdge }
    \cup { Vec(Rat(6, 5), Rat(4, 5)), Vec(Rat(-8, 5), Rat(3, 5)),
           Vec(Rat(1, 2), Rat(1, 2)), Vec(Rat(-1, 2), RatZero) }

\* every square root the call takes is the root of a square
exact_call(o, edge_point, direction) ==
    IF edge_point = NoEdgePoint
    THEN HasRatSqrt(sum_of_squares(direction, axes_with_margin_vector(o)))
    ELSE \/ direction[1] = RatZero
         \/ discriminant(o, edge_point[2], direction)[1] < 0
         \/ HasRatSqrt(discriminant(o, edge_point[2], direction))

InitSurface ==
    /\ EmptyContainer /\ dim = 2
    /\ \/ call \in { Call("ellipse, direction", <<o, d>>, <<>>) :
                        o \in Ellipses,
                        d \in { d \in Directions :
                                  \A o2 \in Ellipses :
                                      exact_call(o2, NoEdgePoint, d) } }
       \/ call \in { c \in { Call("ellipse, edge_point, direction", a, <<>>) :
                               a \in Ellipses
                                     \X ({NoEdgePoint}
                                         \cup { EdgePoint(x) : x \in EdgePoints })
                                     \X Directions \X BOOLEAN \X BOOLEAN } :
                        exact_call(c.args[1], c.args[2], c.args[3]) }

GetLocalRadiusPoint ==
    /\ call.fn = "ellipse, direction"
    /\ call' = Call("get_local_radius_point", call.args,
                    get_local_radius_point_2d(call.args[1], call.args[2]))
    /\ Idle

GetIntersectionWithSurface ==
    /\ call.fn = "ellipse, edge_point, direction"
    /\ call' = Call("get_intersection_with_surface", call.args,
                    get_intersection_with_surface(call.args[1], call.args[2],
                        call.args[3], call.args[4], call.args[5]))
    /\ Idle

NextSurface == GetLocalRadiusPoint \/ GetIntersectionWithSurface

SpecSurface == InitSurface /\ [][NextSurface]_vars

\* C15: called with a start point and a direction whose line misses the
\* ellipse (negative quadratic discriminant), get_intersection_with_surface
\* fails with an error instead of returning a value.
C15_MissRaises ==
    ( /\ call.fn = "get_intersection_with_surface"
      /\ call.args[2] # NoEdgePoint
      /\ call.args[3][1] # RatZero
      /\ discriminant(call.args[1], call.args[2][2], call.args[3])[1] < 0 )
        => call.result[1] \in Exceptions

\* C17: every point returned by get_intersection_with_surface (ray from the
\* centre via get_local_radius_point, or ray from a start point inside or on
\* the ellipse, directions with zero x-component included) has Gamma = 1.
C17_OnSurface ==
    ( /\ call.fn \in {"get_local_radius_point", "get_intersection_with_surface"}
      /\ call.result[1] = "points"
      /\ \/ call.fn = "get_local_radius_point"
         \/ call.args[2] = NoEdgePoint
         \/ ~RootGreater(get_gamma_ellipse(call.args[1], call.args[2][2]),
                         RatOne) )
        => \A k \in 1..Len(call.result[2]) :
               RootEq(get_gamma_ellipse(call.args[1], call.result[2][k]),
                      RatOne)

----------------------------------------------------------------------------
(* get_tangents2ellipse (utils.py:464-530), center_point = None             *)

\* the float nan, and a vector of nan
NaN == <<0, 0>>

NaNVector == Vec(NaN, NaN)

IsNaNVector(v) == v[1][2] = 0 \/ v[2][2] = 0

\* A_, B_, C_, D_ of the tangent slopes
tangent_quadratic(edge_point, axes) ==
    LET A_ == RatSub(RatMul(edge_point[1], edge_point[1]),
                     RatMul(axes[1], axes[1]))
        B_ == RatMul(Rat(-2, 1), RatMul(edge_point[1], edge_point[2]))
        C_ == RatSub(RatMul(edge_point[2], edge_point[2]),
                     RatMul(axes[2], axes[2]))
    IN  <<A_, B_, RatSub(RatMul(B_, B_), RatMul(Rat(4, 1), RatMul(A_, C_)))>>

\* the point of contact of the line of slope m through edge_point (lines
\* 501-509)
tangent_point(edge_point, axes, m) ==
    LET c == RatSub(edge_point[2], RatMul(m, edge_point[1]))
        A == RatAdd(RatMul(RatMul(axes[1], m), RatMul(axes[1], m)),
                    RatMul(axes[2], axes[2]))
        B == RatMul(RatMul(Rat(2, 1), RatMul(axes[1], axes[1])), RatMul(m, c))
        x == RatQuot(RatNeg(B), RatMul(Rat(2, 1), A))
    IN  Vec(x, RatAdd(RatMul(m, x), c))

\* tangent_vectors[:,ii] /= LA.norm(tangent_vectors[:,ii]): the direction is
\* kept unnormalised; 0/0 is nan
tangent_vector(edge_point, point) ==
    IF point = edge_point THEN NaNVector
                          ELSE VecAdd(point, VecNeg(edge_point))

\* angle_difference_directional(angle(p1), angle(p0)) < 0
clockwise(p0, p1) ==
    RatSub(RatMul(p0[1], p1[2]), RatMul(p0[2], p1[1]))[1] < 0

\* the returned pair (tangent_vectors, tangent_points), columns in order
Tangents(edge_point, p0, p1) ==
    <<"tangents", <<tangent_vector(edge_point, p0),
                    tangent_vector(edge_point, p1), p0, p1>>>>

\* get_tangents2ellipse(edge_point, axes, dim=dimension)
get_tangents2ellipse(edge_point, axes, dimension) ==
    LET q == tangent_quadratic(edge_point, axes) IN
    IF dimension # 2
    THEN Raises("TypeError")
    ELSE IF q[3][1] < 0
    THEN Raises("RuntimeError")
    ELSE IF q[1] = RatZero
    \* m is +-inf or nan: c and B are infinite or nan and -B/(2*A) is nan
    THEN <<"tangents", <<NaNVector, NaNVector, NaNVector, NaNVector>>>>
    ELSE LET m0 == RatQuot(RatAdd(RatNeg(q[2]), RatSqrt(q[3])),
                           RatMul(Rat(2, 1), q[1]))
             m1 == RatQuot(RatSub(RatNeg(q[2]), RatSqrt(q[3])),
                           RatMul(Rat(2, 1), q[1]))
             p0 == tangent_point(edge_point, axes, m0)
             p1 == tangent_point(edge_point, axes, m1)
         IN  IF clockwise(p0, p1) THEN Tangents(edge_point, p1, p0)
                                  ELSE Tangents(edge_point, p0, p1)

\* the inputs: axes, and edge points inside, on and outside the ellipses
TangentAxes ==
    { Vec(Rat(1, 1), Rat(1, 1)), Vec(Rat(2, 1), Rat(1, 1)),
      Vec(Rat(2, 1), Rat(2, 1)) }

TangentEdgePoints ==
    EdgePoints
    \cup { Vec(Rat(5, 4), RatZero), Vec(Rat(5, 2), RatZero),
           Vec(RatZero, Rat(5, 4)), Vec(Rat(3, 5), Rat(4, 5)),
           Vec(Rat(10, 3), RatZero), Vec(Rat(1, 4), Rat(-1, 4)) }

InitTangents ==
    /\ EmptyContainer /\ dim = 2
    /\ call \in { c \in { Call("edge_point, axes, dim", a, <<>>) :
                            a \in TangentEdgePoints \X TangentAxes \X {2, 3} } :
                    \/ tangent_quadratic(c.args[1], c.args[2])[3][1] < 0
                    \/ HasRatSqrt(tangent_quadratic(c.args[1], c.args[2])[3]) }

GetTangents2Ellipse ==
    /\ call.fn = "edge_point, axes, dim"
    /\ call' = Call("get_tangents2ellipse", call.args,
                    get_tangents2ellipse(call.args[1], call.args[2],
                                         call.args[3]))
    /\ Idle

SpecTangents == InitTangents /\ [][GetTangents2Ellipse]_vars

\* (x/a0)^2 + (y/a1)^2 - 1 of a point (x, y)
ellipse_side(point, axes) == RatSub(sum_of_squares(point, axes), RatOne)[1]

\* C16: get_tangents2ellipse(edge_point, axes) raises an error if and only
\* if edge_point lies strictly inside the ellipse; for every point on or
\* outside the ellipse it returns two tangent directions and two tangent
\* points (numbers, the points on the ellipse).
C16_TangentsUnlessInside ==
    (call.fn = "get_tangents2ellipse" /\ call.args[3] = 2)
        => LET edge_point == call.args[1]
               axes == call.args[2]
           IN  /\ call.result[1] # "tangents"
                      <=> ellipse_side(edge_point, axes) < 0
               /\ ellipse_side(edge_point, axes) >= 0
                      => /\ call.result[1] = "tangents"
                         /\ \A k \in 1..4 : ~IsNaNVector(call.result[2][k])
                         /\ \A k \in 3..4 :
                                ellipse_side(call.result[2][k], axes) = 0

----------------------------------------------------------------------------
(* Circles far apart on a line                                              *)

\* a circle of radius 1 without margin
UnitCircle == [axes |-> <<1000, 1000>>, margin |-> 0, is_boundary |-> FALSE]

\* the centres the circles are placed at: (0,0), (5,0), (10,0)
CircleCenters == {0, 5000, 10000}

AppendCircle ==
    \E position \in CircleCenters :
        AppendObstacle(NewObstacle(UnitCircle, position))

NextCircles == AppendCircle \/ Resolve

SpecCircles == Init /\ [][NextCircles]_vars

\* C19: for two non-boundary circles of radius 1 centred at (0,0) and
\* (5,0), both freshly added and marked as moved, update_reference_points
\* ends without error with the pair separated, dist[0][1] = 3 and the cached
\* boundary points at (1,0) for obstacle 0 and (4,0) for obstacle 1, each
\* within the convergence error of the descent.
C19_FarCircles ==
    [][( /\ dim = 2 /\ N = 2
         /\ obs[1] = NewObstacle(UnitCircle, 0)
         /\ obs[2] = NewObstacle(UnitCircle, 5000)
         /\ get_distance(1, 2) = Unresolved
         /\ op'.name \in {"resolve", "raised"} )
       => /\ err' = "none"
          /\ imat'[<<1, 2>>] = <<>>
          /\ Abs(get_distance_in(dist', 1, 2) - 3000)
                 <= Scale \div ConvergenceDen
          /\ Abs(transform_relative2global(obs'[1], bref'[<<1, 2>>]) - 1000)
                 <= Scale \div ConvergenceDen
          /\ Abs(transform_relative2global(obs'[2], bref'[<<2, 1>>]) - 4000)
                 <= Scale \div ConvergenceDen]_vars

\* the two circles after the pass that evaluated their pair
C19_Witness ==
    /\ dim = 2 /\ N = 2
    /\ obs[1].center = 0 /\ obs[2].center = 5000
    /\ op.name = "resolve" /\ op.evaluated = {<<1, 2>>} /\ ~op.again
    /\ get_distance(1, 2) > 0

----------------------------------------------------------------------------
(* NavigationContainer.get_analytic_switches (comparison_navigation/main.py) *)

\* the names bound in the module: its imports and its definitions
module_names ==
    {"dataclass", "pi", "np", "LA", "plt", "cm", "ObjectPose", "Obstacle",
     "Ellipse", "BaseContainer", "get_beta", "get_starset_deforming_factor",
     "NavigationContainer"}

\* a beta that is not 0 and within the absolute tolerance 1e-8 of np.isclose
BetaTiny == Rat(1, 1000000000)

\* beta = Gamma - 1 of positions in free space or on a surface
Betas == {RatZero, BetaTiny, Rat(1, 2), RatOne, Rat(2, 1)}

MaxBetas == 3

BetaLists == UNION { [1..n -> Betas] : n \in 1..MaxBetas }

\* np.isclose(beta, 0): abs(beta) <= atol = 1e-8
isclose_zero(beta) == RatLeq(<<Abs(beta[1]), beta[2]>>, Rat(1, 100000000))

\* np.prod of a sequence of fractions
RECURSIVE RatProd(_, _)
RatProd(f, n) == IF n = 0 THEN RatOne ELSE RatMul(f[n], RatProd(f, n - 1))

\* beta_bar of lines 84-92, or the exception raised
beta_bar_of(beta_values) ==
    LET ind_zero == { k \in DOMAIN beta_values : isclose_zero(beta_values[k]) }
    IN  IF Cardinality(ind_zero) = 0
        THEN <<"beta_bar",
               [k \in DOMAIN beta_values |->
                   RatQuot(beta_values[k],
                           RatProd(beta_values, Len(beta_values)))]>>
        ELSE IF Cardinality(ind_zero) = 1
        THEN <<"beta_bar",
               [k \in DOMAIN beta_values |->
                   IF k \in ind_zero THEN RatOne ELSE RatZero]>>
        ELSE Raises("Exception")

\* LA.norm(rel_pos_attractor, ord=2) of a vector with a rational norm
rel_dist_of(rel_pos_attractor) ==
    RatSqrt(RatAdd(RatMul(rel_pos_attractor[1], rel_pos_attractor[1]),
                   RatMul(rel_pos_attractor[2], rel_pos_attractor[2])))

\* get_analytic_switches(rel_pos_attractor, beta_values) with
\* lambda_constant = 1 and goal_norm_ord = 1
get_analytic_switches(rel_pos_attractor, beta_values) ==
    IF "inf" \notin module_names
    THEN \* line 76: "if goal_norm_ord is not inf"
         Raises("NameError")
    ELSE IF rel_dist_of(rel_pos_attractor) = RatZero
    THEN <<"switch_value", [k \in DOMAIN beta_values |-> RatZero]>>
    ELSE IF beta_bar_of(beta_values)[1] # "beta_bar"
    THEN beta_bar_of(beta_values)
    ELSE <<"switch_value",
           [k \in DOMAIN beta_values |->
               LET scaled_dist == RatMul(beta_bar_of(beta_values)[2][k],
                                         rel_dist_of(rel_pos_attractor))
               IN  RatQuot(scaled_dist,
                           RatAdd(scaled_dist, beta_values[k]))]>>

\* positions relative to the attractor
RelativePositions ==
    { Vec(RatZero, RatZero), Vec(RatOne, RatZero), Vec(RatZero, Rat(2, 1)),
      Vec(Rat(3, 1), Rat(4, 1)) }

InitSwitches ==
    /\ EmptyContainer /\ dim = 2
    /\ call \in { Call("rel_pos_attractor, beta_values", a, <<>>) :
                    a \in RelativePositions \X BetaLists }

GetAnalyticSwitches ==
    /\ call.fn = "rel_pos_attractor, beta_values"
    /\ call' = Call("get_analytic_switches", call.args,
                    get_analytic_switches(call.args[1], call.args[2]))
    /\ Idle

SpecSwitches == InitSwitches /\ [][GetAnalyticSwitches]_vars

\* the obstacles whose beta is zero
zero_betas(beta_values) ==
    { k \in DOMAIN beta_values : beta_values[k] = RatZero }

\* C20: for a position that is not the attractor, get_analytic_switches
\* raises the configuration error whenever two or more betas are zero and
\* returns normally when at most one is; with exactly one zero beta that
\* obstacle's beta_bar is 1 and all others are 0.
C20_TwoZerosRaise ==
    ( /\ call.fn = "get_analytic_switches"
      /\ call.args[1] # Vec(RatZero, RatZero) )
        => LET beta_values == call.args[2]
               zeros == zero_betas(beta_values)
           IN  /\ Cardinality(zeros) >= 2 => call.result = Raises("Exception")
               /\ Cardinality(zeros) <= 1 => call.result[1] = "switch_value"
               /\ Cardinality(zeros) = 1
                      => beta_bar_of(beta_values) =
                             <<"beta_bar",
                               [k \in DOMAIN beta_values |->
                                   IF k \in zeros THEN RatOne ELSE RatZero]>>

----------------------------------------------------------------------------
(* The two descents as functions: their results and their step counts      *)

\* it_count when the loop of gamma_gradient_descent breaks: the number of
\* updates of common_point it has made
RECURSIVE gamma_descent_steps(_, _, _, _)
gamma_descent_steps(obs0, obs1, common_point, it_count) ==
    LET delta_gamma == derivative_gamma_sum(common_point, obs0, obs1)
        step        == Quot(gamma_step_size * delta_gamma, 100)
        next_point  == Clamp(common_point - step)
        count       == it_count + 1
    IN  IF count > max_it \/ Abs(step) * ConvergenceDen < Scale
        THEN count
        ELSE gamma_descent_steps(obs0, obs1, next_point, count)

\* it_count when the loop of angle_gradient_descent is left: the number of
\* updates of angles it has made
RECURSIVE angle_descent_steps(_, _, _, _, _)
angle_descent_steps(obs0, obs1, angles, nulls, it_count) ==
    LET ang0 == IF Abs(angles[1]) > Pi THEN 0 ELSE angles[1]
        ang1 == IF Abs(angles[2]) > Pi THEN 0 ELSE angles[2]
        sp0  == surface_point_at(obs0, ang0, nulls[1])
        sp1  == surface_point_at(obs1, ang1, nulls[2])
        dist_dir       == sp1 - sp0
        dist_magnitude == Abs(dist_dir)
        delta0 == -(dist_dir * surface_derivative_axis(obs0, ang0))
        delta1 == dist_dir * surface_derivative_axis(obs1, ang1)
        step0  == Quot(angle_step_size * Quot(delta0, 2 * dist_magnitude), 100)
        step1  == Quot(angle_step_size * Quot(delta1, 2 * dist_magnitude), 100)
        count  == it_count + 1
    IN  IF dist_magnitude * ContactDen < Scale \/ dim > 2
        THEN it_count
        ELSE IF count > max_it
                \/ Norm2(step0, step1) * ConvergenceDen < Scale
        THEN count
        ELSE angle_descent_steps(obs0, obs1,
                                 <<ang0 - step0, ang1 - step1>>, nulls, count)

\* the obstacles the descents are called on
DescentObstacles ==
    { NewObstacle(kind, position) : kind \in Kinds, position \in Centers }
    \cup { NewObstacle(Wall, WallCenter) }

\* the starting points of the Gamma descent, every StartStep
StartStep == 500

MaxStart == 6

StartPoints == { k * StartStep : k \in (-MaxStart)..MaxStart }

InitDescent ==
    /\ EmptyContainer
    /\ \/ call \in { Call("obs0, obs1, common_point", a, <<>>) :
                        a \in { a \in DescentObstacles \X DescentObstacles
                                      \X StartPoints : a[1] # a[2] } }
       \/ call \in { Call("position, obs0, obs1", a, <<>>) :
                        a \in { a \in StartPoints \X DescentObstacles
                                      \X DescentObstacles : a[2] # a[3] } }
       \/ call \in { Call("obs0, obs1, angles, NullMatrices", a, <<>>) :
                        a \in { a \in DescentObstacles \X DescentObstacles
                                      \X ({0, Pi} \X {0, Pi})
                                      \X ({-1, 1} \X {-1, 1}) :
                                  a[1].center # a[2].center } }

GammaGradientDescent ==
    /\ call.fn = "obs0, obs1, common_point"
    /\ call' = Call("gamma_gradient_descent", call.args,
                    <<gamma_gradient_descent(call.args[1], call.args[2],
                                             call.args[3]),
                      gamma_descent_steps(call.args[1], call.args[2],
                                          call.args[3], 0)>>)
    /\ Idle

AngleGradientDescent ==
    /\ call.fn = "obs0, obs1, angles, NullMatrices"
    /\ call' = Call("angle_gradient_descent", call.args,
                    <<angle_gradient_descent(call.args[1], call.args[2],
                                             call.args[3], call.args[4]),
                      angle_descent_steps(call.args[1], call.args[2],
                                          call.args[3], call.args[4], 0)>>)
    /\ Idle

DerivativeGammaSum ==
    /\ call.fn = "position, obs0, obs1"
    /\ call' = Call("derivative_gamma_sum", call.args,
                    derivative_gamma_sum(call.args[1], call.args[2],
                                         call.args[3]))
    /\ Idle

NextDescent ==
    GammaGradientDescent \/ AngleGradientDescent \/ DerivativeGammaSum

SpecDescent == InitDescent /\ [][NextDescent]_vars

\* C22: angle_gradient_descent and gamma_gradient_descent each end after at
\* most max_it = 100 descent steps.
C22_AtMostMaxIt ==
    call.fn \in {"gamma_gradient_descent", "angle_gradient_descent"}
        => call.result[2] <= max_it

----------------------------------------------------------------------------
(* Pair states over moves and passes *)

\* C23 (as claimed): a pair that has reached Intersecting (distance 0) is
\* never set back to Separated (distance > 0) by a later step.
C23_ForwardOnly ==
    [][\A pr \in Pairs(N) :
          get_distance(pr[1], pr[2]) = 0
              => get_distance_in(dist', pr[1], pr[2]) = 0]_vars

\* C23 (amended): an Intersecting pair never returns to Unresolved, and it
\* is set back to Separated only by a pass of update_reference_points that
\* re-evaluates it because one of its obstacles has moved.
C23_BackOnlyAfterMove ==
    [][\A pr \in Pairs(N) :
          get_distance(pr[1], pr[2]) = 0
              => /\ get_distance_in(dist', pr[1], pr[2]) >= 0
                 /\ get_distance_in(dist', pr[1], pr[2]) > 0
                        => /\ op'.name \in {"resolve", "raised"}
                           /\ obs[pr[1]].has_moved \/ obs[pr[2]].has_moved
      ]_vars

\* an Intersecting pair one obstacle of which has moved out of the other's
\* reach: the next pass re-evaluates it
C23_Witness ==
    \E pr \in Pairs(N) :
        /\ get_distance(pr[1], pr[2]) = 0
        /\ obs[pr[1]].has_moved \/ obs[pr[2]].has_moved
        /\ ~obs[pr[1]].is_boundary /\ ~obs[pr[2]].is_boundary
        /\ Abs(obs[pr[1]].center - obs[pr[2]].center)
               > axes_with_margin(obs[pr[1]]) + axes_with_margin(obs[pr[2]])

----------------------------------------------------------------------------
(* Contact during the angle descent *)

\* the points and angles update_boundary_reference_points starts the pair
\* (ii, jj) from (gradient_container.py:199-268):
\* <<surf_points[:, 0], surf_points[:, 1], angles, center_dists>>
pair_start(ii, jj) ==
    LET center_dists1 == obs[ii].center - obs[jj].center
        center_dists0 == IF obs[jj].is_boundary THEN center_dists1
                                                ELSE -center_dists1
        first == get_distance(ii, jj) < 0
        surf0 == IF first THEN get_local_radius_point(obs[ii], center_dists0)
                          ELSE get_boundary_reference_point(ii, jj)
        surf1 == IF first THEN get_local_radius_point(obs[jj], center_dists1)
                          ELSE get_boundary_reference_point(jj, ii)
    IN  <<surf0, surf1,
          <<IF first THEN 0
            ELSE get_angle_space(surf0 - obs[ii].center, center_dists0),
            IF first THEN 0
            ELSE get_angle_space(surf1 - obs[jj].center, center_dists1)>>,
          <<center_dists0, center_dists1>>>>

\* the surface points of the first iteration of the angle descent on the
\* pair (ii, jj)
first_surface_points(ii, jj) ==
    LET st == pair_start(ii, jj)
    IN  <<surface_point_at(obs[ii], st[3][1], st[4][1]),
          surface_point_at(obs[jj], st[3][2], st[4][2])>>

\* the pass evaluates the pair (ii, jj) by the angle descent, and the
\* surface points of the descent are closer than contact_err
angle_contact(ii, jj) ==
    /\ err = "none"
    /\ pair_has_moved(ii, jj)
    /\ ~gamma_leq_margin(obs[ii], pair_start(ii, jj)[2])
    /\ ~gamma_leq_margin(obs[jj], pair_start(ii, jj)[1])
    /\ Abs(first_surface_points(ii, jj)[2] - first_surface_points(ii, jj)[1])
           * ContactDen < Scale

\* C24: when the two surface points of the angle descent are closer than
\* the contact tolerance, the descent stops, the Gamma descent is run from
\* the mean of the two points, the distance is 0 and both obstacles get the
\* same point; the caller records the pair in the intersection map.
C24_ContactSwitches ==
    [][( /\ N = 2
         /\ angle_contact(1, 2)
         /\ op'.name \in {"resolve", "raised"} )
       => LET sp == first_surface_points(1, 2)
              reference_point ==
                  gamma_gradient_descent(obs[1], obs[2],
                                         Quot(sp[1] + sp[2], 2))
          IN  /\ err' = "none"
              /\ get_distance_in(dist', 1, 2) = 0
              /\ get_boundary_reference_point_in(bref', 1, 2) = reference_point
              /\ get_boundary_reference_point_in(bref', 2, 1) = reference_point
              /\ imat'[<<1, 2>>] = <<reference_point>>]_vars

\* a pair about to be re-evaluated whose surfaces touch at the cached angles
C24_Witness ==
    /\ N = 2
    /\ angle_contact(1, 2)
    /\ get_distance(1, 2) >= 0

----------------------------------------------------------------------------
(* The cost of the Gamma descent *)

\* d/dx of the cost of obstacle o at x, the cost chosen by o's own flag:
\* |gamma|^3 for a solid obstacle, 10 |gamma - 0.9|^2 for a boundary
own_cost_derivative(o, x) ==
    IF o.is_boundary THEN cost_derivative_boundary(o, x)
                     ELSE cost_derivative_solid(o, x)

\* C25: in derivative_gamma_sum the cost term of each of the two obstacles
\* is chosen by that obstacle's own is_boundary flag, for obs0 as well as
\* for obs1.
C25_OwnFlag ==
    call.fn = "derivative_gamma_sum"
        => call.result = own_cost_derivative(call.args[2], call.args[1])
                         + own_cost_derivative(call.args[3], call.args[1])

----------------------------------------------------------------------------
(* The side of the intersection *)

\* C26: with only_positive_direction set and a start point strictly inside
\* the ellipse, get_intersection_with_surface returns the intersection on
\* the ray's positive side, (returned_point - from_point) . direction > 0,
\* for every direction with a non-zero x-component.
C26_PositiveSide ==
    ( /\ call.fn = "get_intersection_with_surface"
      /\ call.args[4]
      /\ call.args[2] # NoEdgePoint
      /\ call.args[3][1] # RatZero
      /\ RootLess(get_gamma_ellipse(call.args[1], call.args[2][2]), RatOne) )
        => /\ call.result[1] = "points"
           /\ Dot(VecAdd(call.result[2][1], VecNeg(call.args[2][2])),
                  call.args[3])[1] > 0

----------------------------------------------------------------------------
(* The angle descent on two circles in the plane, in fixed point of 1e-6   *)

\* floats as whole multiples of 1/Fine
Fine == 1000000

\* the element of a set of one element: a value computed once and named
The(S) == CHOOSE x \in S : TRUE

\* x * y on fixed-point numbers >= 0, by parts of three digits
fine_product(x, y) ==
    LET xh == x \div 1000
        xl == x % 1000
        yh == y \div 1000
        yl == y % 1000
        m  == xh * yl + xl * yh
    IN  xh * yh + (m \div 1000) + (((m % 1000) * 1000 + xl * yl) \div Fine)

\* a * b on fixed-point numbers
FineMul(a, b) ==
    The({ Sgn(x) * Sgn(y) * fine_product(Abs(x), Abs(y)) : x \in {a}, y \in {b} })

\* x / y on fixed-point numbers, x >= 0 and y > 0, by long division in steps
\* of 100
fine_quotient(x, y) ==
    LET r0 == x % y
        r1 == (r0 * 100) % y
        r2 == (r1 * 100) % y
    IN  (x \div y) * Fine + ((r0 * 100) \div y) * 10000
        + ((r1 * 100) \div y) * 100 + (r2 * 100) \div y

\* a / b on fixed-point numbers, b > 0
FineDiv(a, b) ==
    The({ Sgn(x) * fine_quotient(Abs(x), y) : x \in {a}, y \in {b} })

\* the square root of a fixed-point number by Newton's iteration from above
RECURSIVE FineSqrt(_, _)
FineSqrt(v, s) ==
    The({ IF next >= s THEN s ELSE FineSqrt(v, next) :
            next \in {(s + FineDiv(v, s)) \div 2} })

\* np.linalg.norm of a planar vector, exactly where its square fits
FineNorm(v) ==
    The({ IF Abs(x) + Abs(y) < 30000
          THEN IntSqrt(x * x + y * y)
          ELSE The({ FineSqrt(square, Abs(x) + Abs(y)) :
                       square \in {FineMul(x, x) + FineMul(y, y)} }) :
            x \in {v[1]}, y \in {v[2]} })

\* np.sin and np.cos of small angles, by their series
fine_sin(x) ==
    LET x2 == FineMul(x, x)
        x3 == FineMul(x2, x)
        x5 == FineMul(x3, x2)
    IN  x - x3 \div 6 + x5 \div 120

fine_cos(x) ==
    LET x2 == FineMul(x, x)
        x4 == FineMul(x2, x2)
        x6 == FineMul(x4, x2)
    IN  Fine - x2 \div 2 + x4 \div 24 - x6 \div 720

\* a circle <<radius, x>> centred at (x, 0), and the direction, +1 or -1
\* along the x-axis, its angles are measured from
\* get_angle_space_inverse(angle, NullMatrix): the unit vector at an angle
\* from the null direction
direction_at(angle, null_sign) ==
    <<null_sign * fine_cos(angle), null_sign * fine_sin(angle)>>

\* obs.get_local_radius_point(direction, in_global_frame=True) of a circle
circle_point(circle, angle, null_sign) ==
    <<circle[2] + FineMul(circle[1], direction_at(angle, null_sign)[1]),
      FineMul(circle[1], direction_at(angle, null_sign)[2])>>

\* obs.get_surface_derivative_angle_num: d(surface point)/d(angle)
circle_derivative(circle, angle, null_sign) ==
    <<-(null_sign * FineMul(circle[1], fine_sin(angle))),
      null_sign * FineMul(circle[1], fine_cos(angle))>>

FineDot(u, v) == FineMul(u[1], v[1]) + FineMul(u[2], v[2])

\* 1e-4, 1e-3 and 0.03 of angle_gradient_descent, in units of 1/Fine
contact_err == 100
convergence_err == 1000
FineStepDen == 100
FineStepNum == 3

\* the distance between two points of the plane
point_distance(p, q) == FineNorm(<<q[1] - p[1], q[2] - p[2]>>)

\* surface_points[:, 0] and surface_points[:, 1] at the angles
surface_points_at(obs0, obs1, angles) ==
    <<circle_point(obs0, angles[1], 1), circle_point(obs1, angles[2], -1)>>

\* surface_derivatives[:, 0] and surface_derivatives[:, 1] at the angles
surface_derivatives_at(obs0, obs1, angles) ==
    <<circle_derivative(obs0, angles[1], 1), circle_derivative(obs1, angles[2], -1)>>

\* step_size * delta_angle of a pass
angle_step(surface_points, surface_derivatives, dist_magnitude) ==
    LET dist_dir == <<surface_points[2][1] - surface_points[1][1],
                      surface_points[2][2] - surface_points[1][2]>>
    IN  <<Quot(FineStepNum * FineDiv(-FineDot(dist_dir, surface_derivatives[1]),
                                     2 * dist_magnitude), FineStepDen),
          Quot(FineStepNum * FineDiv(FineDot(dist_dir, surface_derivatives[2]),
                                     2 * dist_magnitude), FineStepDen)>>

\* a pass from the update of the angles on: the locals of the next pass, or
\* what the function returns when the loop is left
angle_update(obs0, obs1, angles, step, dist_magnitude, it_count) ==
    IF it_count + 1 > max_it \/ FineNorm(step) < convergence_err
    THEN <<"separated", dist_magnitude,
           circle_point(obs0, angles[1] - step[1], 1),
           circle_point(obs1, angles[2] - step[2], -1), it_count + 1>>
    ELSE <<"while", <<angles[1] - step[1], angles[2] - step[2]>>, it_count + 1>>

\* a pass from the contact test on
angle_contact_test(obs0, obs1, angles, surface_points, dist_magnitude, it_count) ==
    IF dist_magnitude < contact_err
    THEN <<"intersecting",
           <<(surface_points[1][1] + surface_points[2][1]) \div 2,
             (surface_points[1][2] + surface_points[2][2]) \div 2>>>>
    ELSE The({ angle_update(obs0, obs1, angles, step, dist_magnitude, it_count) :
                 step \in {angle_step(surface_points,
                                      surface_derivatives_at(obs0, obs1, angles),
                                      dist_magnitude)} })

\* GradientContainer.angle_gradient_descent on two circles of the plane, one
\* pass of the loop from the angles and it_count it has reached, each value
\* of the pass computed once and in the order of the code
angle_descent_pass(obs0, obs1, angles, it_count) ==
    The(UNION { { angle_contact_test(obs0, obs1, angles, sp, dm, it_count) :
                    dm \in {point_distance(sp[1], sp[2])} } :
                sp \in {surface_points_at(obs0, obs1, angles)} })

\* circles <<radius, x>> of radius 1 and 1.5, the second 4 or 5 to the right
PlaneRadii == {Fine, 3 * (Fine \div 2)}
PlaneOffsets == {4 * Fine, 5 * Fine}

\* starting angles in steps of AngleUnit, up to MaxAngle steps either way
AngleUnit == 250000
MaxAngle == 2
AngleStarts == { AngleUnit * k : k \in -MaxAngle..MaxAngle }

InitPlane ==
    /\ EmptyContainer /\ dim = 2
    /\ call \in { Call("obs0, obs1, angles", a, <<>>) :
                    a \in { <<<<r0, 0>>, <<r1, x>>, <<a0, a1>>>> :
                              r0 \in PlaneRadii, r1 \in PlaneRadii,
                              x \in PlaneOffsets,
                              a0 \in AngleStarts, a1 \in AngleStarts } }

\* angle_gradient_descent, pass by pass: the call holds the arguments and,
\* inside the loop, the locals angles and it_count
AngleDescentOfCircles ==
    /\ call.fn \in {"obs0, obs1, angles", "while not is_intersecting"}
    /\ \E locals \in {IF call.fn = "obs0, obs1, angles"
                      THEN <<"while", call.args[3], 0>> ELSE call.result} :
         \E pass \in {angle_descent_pass(call.args[1], call.args[2],
                                         locals[2], locals[3])} :
           call' = Call(IF pass[1] = "while" THEN "while not is_intersecting"
                                             ELSE "angle_gradient_descent",
                        call.args, pass)
    /\ Idle

SpecPlane == InitPlane /\ [][AngleDescentOfCircles]_vars

\* C27: when the angle descent ends with the obstacles apart, the distance it
\* returns is the distance between the two boundary points it returns
C27_DistanceOfReturnedPoints ==
    (call.fn = "angle_gradient_descent" /\ call.result[1] = "separated")
        => call.result[2] = point_distance(call.result[3], call.result[4])

----------------------------------------------------------------------------
(* get_reference_weight as a function                                      *)

\* distances of an obstacle to up to MaxNeighbours obstacles: -1 (itself or
\* unresolved), 0 (contact) and 0.5 to 4
MaxNeighbours == 2
ReferenceDistances == {Unresolved, 0, 500, 1000, 2000, 2900, 3000, 4000}

\* reference lengths: circles of radius 0.3 and 1, and the length 1
ReferenceSizes == {Norm2(300, 300), Scale, Norm2(Scale, Scale)}

VectorsOver(S) == UNION { [1..n -> S] : n \in 1..MaxNeighbours }

InitReference ==
    /\ EmptyContainer /\ dim = 2
    /\ call \in { Call("distance, obs_reference_size", a, <<>>) :
                    a \in { a \in VectorsOver(ReferenceDistances)
                                     \X VectorsOver(ReferenceSizes) :
                              Len(a[1]) = Len(a[2]) } }

GetReferenceWeight ==
    /\ call.fn = "distance, obs_reference_size"
    /\ call' = Call("get_reference_weight", call.args,
                    get_reference_weight(call.args[1], call.args[2]))
    /\ Idle

SpecReference == InitReference /\ [][GetReferenceWeight]_vars

\* C28: for distances that are -1, 0 or positive and positive reference
\* sizes, get_reference_weight returns weights that are all >= 0 and sum to
\* at most 1, and the weight of an entry of distance -1 is 0
C28_WeightsInRange ==
    call.fn = "get_reference_weight"
        => /\ \A j \in DOMAIN call.result : call.result[j] >= 0
           /\ SumTo(call.result, Len(call.result)) <= Scale
           /\ \A j \in DOMAIN call.result :
                  call.args[1][j] = Unresolved => call.result[j] = 0

----------------------------------------------------------------------------
(* The sizes of the caches                                                 *)

\* self._obstacle_is_updated: __init__ sets it to np.ones(self.number) for
\* the obstacle list it is given (none), and no other method assigns it
obstacle_is_updated == [ii \in Idx(0) |-> TRUE]

\* GradientContainer.get_if_obstacle_is_updated
get_if_obstacle_is_updated(ii) ==
    IF ii \in DOMAIN obstacle_is_updated
    THEN <<"value", obstacle_is_updated[ii]>>
    ELSE Raises("IndexError")

\* C29: after the construction and any appends the caches have the size of
\* the container: a boundary point for every (i, j), a distance-matrix cell
\* for every pair, and an updated flag for every obstacle
C29_CachesCoverObstacles ==
    (op.name \in {"init", "append"} /\ N >= 1)
        => /\ DOMAIN bref = Idx(N) \X Idx(N)
           /\ \A pr \in Pairs(N) : get_index(pr[1], pr[2]) \in DOMAIN dist
           /\ \A ii \in Idx(N) : get_if_obstacle_is_updated(ii)[1] = "value"

----------------------------------------------------------------------------
(* The container when update_reference_points returns                      *)

\* C30: when update_reference_points returns, no obstacle has has_moved set,
\* and every pair of which an obstacle had has_moved set when the call began
\* has a resolved distance
C30_MovedPairsResolved ==
    [][op'.name = "resolve"
       => /\ \A k \in 1..N : ~obs'[k].has_moved
          /\ \A pr \in Pairs(N) :
                 (obs[pr[1]].has_moved \/ obs[pr[2]].has_moved)
                     => get_distance_in(dist', pr[1], pr[2]) >= 0]_vars

\* a call has returned on three obstacles after a move: it evaluated the
\* pairs of the moved obstacle and left the third pair alone
C30_Witness ==
    /\ op.name = "resolve" /\ N = 3 /\ moves >= 1
    /\ op.evaluated # {} /\ op.evaluated # Pairs(N)
    /\ \A k \in 1..N : ~obs[k].has_moved
    /\ \A pr \in Pairs(N) : get_distance(pr[1], pr[2]) >= 0

====
